---------------------------- MODULE Spec2Model ----------------------------
(***************************************************************************)
(* SATIN oracle, src/oracle/api/main.py and src/oracle/engine: the verify *)
(* flow, the shared Redis state and the community vote.                   *)
(*                                                                         *)
(* Fixed point: scores and penalties are integers in hundredths            *)
(* (30.0 -> 3000, 0.60 -> 60), token rewards are integers in thousandths   *)
(* of a token, reputation is kept in hundredths of a point (the ledger's   *)
(* cumulativeScore, which the code divides by 100.0).                      *)
(***************************************************************************)
EXTENDS Integers, Sequences, FiniteSets, TLC

None == "None"

(***************************************************************************)
(* Bounds of the model.                                                    *)
(***************************************************************************)
MaxVerify == 2      \* verify requests accepted into the handler
MaxVote   == 4      \* cast_vote requests accepted into the handler
STREAM_KEEP == 1    \* length the feed is trimmed to (ltrim 0..99 keeps 100 in the source)
PHASH_KEEP == 1     \* length the fingerprint list is trimmed to (ltrim 0..9999 in the source)

(***************************************************************************)
(* Program constants.                                                      *)
(***************************************************************************)
COMMUNITY_REVIEW_CONFIDENCE   == 30
CHAMPION_REPUTATION_THRESHOLD == 500
VOTE_PHASE2_DELAY_SEC         == 600
VOTE_QUORUM                   == 3
PARAM_MANIP_STREAK_BAN        == 3
MIN_SCORE_THRESHOLD           == 3000
MAX_TOKEN_REWARD_APEX         == 100
REWARD_GATE                   == 60
MAX_EFFORT_HOURS              == 72
NORMALIZATION_FACTOR          == 10
\* the grade of a community-approved case: 30.0 in hundredths, and
\* round(5.0 + (0.30 ** 1.5) * 45.0, 4) = 12.3943 tokens in thousandths
COMMUNITY_CLAIM_IMPACT_SCORE  == 3000
COMMUNITY_CLAIM_TOKEN_REWARD  == 12394

Min(a, b) == IF a < b THEN a ELSE b
Max(a, b) == IF a > b THEN a ELSE b

(***************************************************************************)
(* str.lower() on the addresses and hashes of the model: "0xA1" is the     *)
(* mixed-case spelling of "0xa1", "0xB2" of "0xb2", "H1" the upper-case   *)
(* spelling of "h1".                                                       *)
(***************************************************************************)
Lower(s) ==
    CASE s = "0xA1" -> "0xa1"
      [] s = "0xB2" -> "0xb2"
      [] s = "H1"   -> "h1"
      [] OTHER      -> s

ZERO_HASH == "0"

Volunteers == {"0xA1", "0xb2"}
Voters     == {"0xa1", "0xb2", "0xB2", "0xc3", "0xd4", "0xe5"}
LowAddrs   == {Lower(a) : a \in Volunteers \cup Voters}
Hashes     == {ZERO_HASH, "h1", "H1"}
LowHashes  == {Lower(h) : h \in Hashes}
EventIds   == 1..MaxVerify
TimePoints == {0, 599, 600}

(***************************************************************************)
(* ImpactScoreCalculator                                                   *)
(***************************************************************************)
ActionTypes == {"FOOD_DISTRIBUTION", "MEDICAL_AID", "SHELTER_CONSTRUCTION",
                "EDUCATION_SESSION", "DISASTER_RELIEF", "CLEAN_WATER_PROJECT",
                "MENTAL_HEALTH_SUPPORT", "ENVIRONMENTAL_ACTION"}

UrgencyLevels == {"LOW", "MEDIUM", "HIGH", "CRITICAL"}

\* multiplier in tenths
URGENCY_MULTIPLIERS(u) ==
    CASE u = "CRITICAL" -> 30
      [] u = "HIGH"     -> 20
      [] u = "MEDIUM"   -> 15
      [] OTHER          -> 10

ACTION_BASE_SCORES(a) ==
    CASE a = "DISASTER_RELIEF"       -> 90
      [] a = "MEDICAL_AID"           -> 85
      [] a = "FOOD_DISTRIBUTION"     -> 80
      [] a = "CLEAN_WATER_PROJECT"   -> 78
      [] a = "SHELTER_CONSTRUCTION"  -> 75
      [] a = "MENTAL_HEALTH_SUPPORT" -> 72
      [] a = "EDUCATION_SESSION"     -> 70
      [] a = "ENVIRONMENTAL_ACTION"  -> 65
      [] OTHER                       -> 60

\* calculate without the cap on the effort
calculate_uncapped(action, urgency, effort2, poverty, conf) ==
    LET base_weighted   == ACTION_BASE_SCORES(action) * Max(0, Min(100, conf))
        urgency_mult    == URGENCY_MULTIPLIERS(urgency)
        location_mult   == 1000 + Max(0, Min(100, poverty)) * 8
        difficulty_mult == 1000 + effort2 * 25
        t               == (base_weighted * urgency_mult * location_mult) \div 10000
        raw_score       == (t * difficulty_mult) \div (1000 * NORMALIZATION_FACTOR)
    IN  Min(10000, raw_score)

\* calculate(metadata, ai_confidence): effort in half hours, poverty and
\* confidence in hundredths; the result is the score in hundredths.
calculate(action, urgency, effort2, poverty, conf) ==
    LET base_weighted   == ACTION_BASE_SCORES(action) * Max(0, Min(100, conf))
        urgency_mult    == URGENCY_MULTIPLIERS(urgency)
        location_mult   == 1000 + Max(0, Min(100, poverty)) * 8
        capped2         == Min(effort2, MAX_EFFORT_HOURS * 2)
        difficulty_mult == 1000 + capped2 * 25
        t               == (base_weighted * urgency_mult * location_mult) \div 10000
        raw_score       == (t * difficulty_mult) \div (1000 * NORMALIZATION_FACTOR)
    IN  Min(10000, raw_score)

RECURSIVE IsqrtIter(_, _, _)
IsqrtIter(n, lo, hi) ==
    IF lo >= hi THEN lo
    ELSE LET mid == (lo + hi + 1) \div 2
         IN  IF mid * mid <= n THEN IsqrtIter(n, mid, hi)
                               ELSE IsqrtIter(n, lo, mid - 1)

Isqrt(n) == IsqrtIter(n, 0, 10000)

\* 5.0 + (score / 100) ** 1.5 * 45.0, capped at MAX_TOKEN_REWARD_APEX;
\* score in hundredths, result in thousandths of a token.
RewardCurve(score) ==
    LET root == Isqrt(score * 10000)              \* 10^4 * sqrt(score/100)
        pow  == (score * root) \div 1000          \* 10^5 * (score/100)^1.5
    IN  Min(5000 + (pow * 45) \div 100, MAX_TOKEN_REWARD_APEX * 1000)

\* round(score * (1.0 - penalty), 4), floored at 0
Penalized(score, penalty) == Max(0, (score * (100 - penalty) + 50) \div 100)


(***************************************************************************)
(* _evaluate_internal(metadata, image_bytes, penalty) on the metadata that *)
(* EvidenceBundle.to_impact_metadata builds.  The coordinates of the model *)
(* are valid and outside the high-need zones, so the poverty index is the  *)
(* one to_impact_metadata derives from people_helped.                      *)
(***************************************************************************)
\* max(max(1.0, effort_hours), people_helped * 0.5), in half hours
MetadataEffort2(effort_hours, people_helped) ==
    Max(Max(2, effort_hours * 2), people_helped)

\* max(0.70, min(1.0, 0.50 + (people_helped / 200.0) * 0.30)), in hundredths
MetadataPoverty(people_helped) ==
    Max(70, Min(100, 50 + (people_helped * 30) \div 200))

\* ai_confidence: 1.0 without an image, the detector's confidence with one
AiConfidence(has_image, cv_confidence) ==
    IF has_image THEN cv_confidence ELSE 100

\* Steps 4 and 5 of _evaluate_internal: the result is the REJECTED metadata
\* (keep_score) or the VERIFIED metadata with the signed values.
evaluate_internal(action, urgency, effort_hours, people_helped, has_image, cv_confidence, penalty) ==
    LET ai_confidence    == AiConfidence(has_image, cv_confidence)
        raw_impact_score == calculate(action, urgency,
                                      MetadataEffort2(effort_hours, people_helped),
                                      MetadataPoverty(people_helped), ai_confidence)
        impact_score     == IF penalty > 0 THEN Penalized(raw_impact_score, penalty)
                                           ELSE raw_impact_score
        rejected         == \/ (has_image /\ ai_confidence < 20)
                            \/ impact_score < MIN_SCORE_THRESHOLD
        token_reward     == IF penalty >= REWARD_GATE THEN 0
                                                      ELSE RewardCurve(impact_score)
    IN  [verified         |-> ~rejected,
         raw_impact_score |-> raw_impact_score,
         impact_score     |-> impact_score,
         ai_confidence    |-> ai_confidence,
         effort2          |-> MetadataEffort2(effort_hours, people_helped),
         capped2          |-> Min(MetadataEffort2(effort_hours, people_helped),
                                  MAX_EFFORT_HOURS * 2),
         impact_scaled    |-> IF rejected THEN 0 ELSE impact_score,
         token_reward_wei |-> IF rejected THEN 0 ELSE token_reward]

(***************************************************************************)
(* ParameterValidator: the constraint table and the layers that depend on  *)
(* the claimed numbers only (effort, people, ratio, urgency) and the       *)
(* clamps.  The layers that read the description, the detector output and  *)
(* the vision-language model contribute the findings `ext`.                *)
(***************************************************************************)
max_effort_hours(a) ==
    CASE a = "FOOD_DISTRIBUTION"     -> 16
      [] a = "MEDICAL_AID"           -> 24
      [] a = "SHELTER_CONSTRUCTION"  -> 72
      [] a = "EDUCATION_SESSION"     -> 10
      [] a = "DISASTER_RELIEF"       -> 72
      [] a = "CLEAN_WATER_PROJECT"   -> 48
      [] a = "MENTAL_HEALTH_SUPPORT" -> 12
      [] a = "ENVIRONMENTAL_ACTION"  -> 16
      [] OTHER                       -> 24

max_people_abs(a) ==
    CASE a = "FOOD_DISTRIBUTION"     -> 1000
      [] a = "MEDICAL_AID"           -> 200
      [] a = "SHELTER_CONSTRUCTION"  -> 100
      [] a = "EDUCATION_SESSION"     -> 300
      [] a = "DISASTER_RELIEF"       -> 2000
      [] a = "CLEAN_WATER_PROJECT"   -> 500
      [] a = "MENTAL_HEALTH_SUPPORT" -> 50
      [] a = "ENVIRONMENTAL_ACTION"  -> 1000
      [] OTHER                       -> 500

urgency_allowed(a) ==
    CASE a = "MEDICAL_AID"          -> {"MEDIUM", "HIGH", "CRITICAL"}
      [] a = "EDUCATION_SESSION"    -> {"LOW", "MEDIUM", "HIGH"}
      [] a = "DISASTER_RELIEF"      -> {"HIGH", "CRITICAL"}
      [] a = "ENVIRONMENTAL_ACTION" -> {"LOW", "MEDIUM", "HIGH"}
      [] OTHER                      -> {"LOW", "MEDIUM", "HIGH", "CRITICAL"}

PHYSICAL_IMPOSSIBILITY_RATIOS(a) ==
    CASE a = "FOOD_DISTRIBUTION"     -> 120
      [] a = "MEDICAL_AID"           -> 20
      [] a = "SHELTER_CONSTRUCTION"  -> 8
      [] a = "EDUCATION_SESSION"     -> 150
      [] a = "DISASTER_RELIEF"       -> 80
      [] a = "CLEAN_WATER_PROJECT"   -> 50
      [] a = "MENTAL_HEALTH_SUPPORT" -> 12
      [] a = "ENVIRONMENTAL_ACTION"  -> 60
      [] OTHER                       -> 100

urgency_rank(u) ==
    CASE u = "CRITICAL" -> 4
      [] u = "HIGH"     -> 3
      [] u = "MEDIUM"   -> 2
      [] u = "LOW"      -> 1
      [] OTHER          -> 0

\* add_penalty without the cap
add_penalty_uncapped(total_penalty, amount) == total_penalty + amount

\* ValidationResult.add_penalty: the running total is capped at 0.60
add_penalty(total_penalty, amount) == Min(60, total_penalty + amount)

\* _check_effort_hours: <<hard block, penalty amount>>
check_effort_hours(a, effort_hours) ==
    LET max_hours == max_effort_hours(a)
    IN  IF effort_hours > max_hours * 2 THEN <<TRUE, 0>>
        ELSE IF effort_hours > max_hours
             THEN <<FALSE, Min(25, 10 + ((effort_hours - max_hours) * 15) \div max_hours)>>
        ELSE IF effort_hours * 2 < 1
                /\ a \in {"DISASTER_RELIEF", "SHELTER_CONSTRUCTION", "CLEAN_WATER_PROJECT"}
             THEN <<FALSE, 25>>
             ELSE <<FALSE, 0>>

\* _check_people_helped
check_people_helped(a, people_helped) ==
    LET max_abs == max_people_abs(a)
    IN  IF people_helped > max_abs * 3 THEN <<TRUE, 0>>
        ELSE IF people_helped > max_abs
             THEN <<FALSE, Min(30, 15 + ((people_helped - max_abs) * 10) \div max_abs)>>
             ELSE <<FALSE, 0>>

\* the ratio layer without its hard block
check_effort_people_ratio_soft(a, effort_hours, people_helped) ==
    LET impossible == PHYSICAL_IMPOSSIBILITY_RATIOS(a)
    IN  IF effort_hours <= 0 THEN <<FALSE, 0>>
        ELSE IF people_helped > impossible * effort_hours
             THEN <<FALSE, Min(25, 15 + ((people_helped - impossible * effort_hours) * 5)
                                          \div (impossible * effort_hours))>>
             ELSE <<FALSE, 0>>

\* _check_effort_people_ratio (effort_hours > 0)
check_effort_people_ratio(a, effort_hours, people_helped) ==
    LET impossible == PHYSICAL_IMPOSSIBILITY_RATIOS(a)
    IN  IF effort_hours <= 0 THEN <<FALSE, 0>>
        ELSE IF people_helped > impossible * 3 * effort_hours THEN <<TRUE, 0>>
        ELSE IF people_helped > impossible * effort_hours
             THEN <<FALSE, Min(25, 15 + ((people_helped - impossible * effort_hours) * 5)
                                          \div (impossible * effort_hours))>>
             ELSE <<FALSE, 0>>

\* _check_urgency, the admissibility branch
urgency_incompatible(a, urgency) == urgency \notin urgency_allowed(a)

\* validate: the layers run in order, every penalty goes through
\* add_penalty, a hard block of one layer does not stop the later layers.
\* penalties are the amounts of result.penalties (0 for a layer that adds
\* none), totals the value of total_penalty after each layer.
validate(a, urgency, effort_hours, people_helped, ext) ==
    LET e  == check_effort_hours(a, effort_hours)
        p  == check_people_helped(a, people_helped)
        r  == check_effort_people_ratio(a, effort_hours, people_helped)
        t1 == add_penalty(0, e[2])
        t2 == add_penalty(t1, p[2])
        t3 == add_penalty(t2, r[2])
        u  == IF urgency_incompatible(a, urgency) THEN 35 ELSE 0
        t4 == IF u > 0 THEN add_penalty(t3, u) ELSE t3
        t5 == add_penalty(t4, ext.penalty)
    IN  [hard_blocked           |-> e[1] \/ p[1] \/ r[1] \/ ext.hard_blocked \/ t5 >= 80,
         total_penalty          |-> t5,
         penalties              |-> <<e[2], p[2], r[2], u, ext.penalty>>,
         totals                 |-> <<t1, t2, t3, t4, t5>>,
         urgency_warning        |-> urgency_incompatible(a, urgency),
         llm_verdict            |-> ext.llm_verdict,
         adjusted_effort_hours  |-> Min(effort_hours, max_effort_hours(a)),
         adjusted_people_helped |-> Min(people_helped, max_people_abs(a))]

\* the highest urgency the action admits (main.py, urgency downgrade)
max_allowed_urgency(a) ==
    CHOOSE u \in urgency_allowed(a) :
        \A w \in urgency_allowed(a) : urgency_rank(w) <= urgency_rank(u)

effective_urgency(a, urgency, warned) ==
    IF warned /\ urgency_rank(urgency) > urgency_rank(max_allowed_urgency(a))
    THEN max_allowed_urgency(a) ELSE urgency

(***************************************************************************)
(* ParameterValidator: the layers that read the description, the detector  *)
(* output and the answer of the vision-language model.  A description of   *)
(* the model is its length, whether it is blank, and the keywords and      *)
(* signatures of the tables that occur in its lower-cased text.            *)
(***************************************************************************)
\* ACTION_CONSTRAINTS[a]["require_any_keyword"]
require_any_keyword(a) ==
    CASE a = "FOOD_DISTRIBUTION" ->
          {"makan", "food", "distribusi", "bagi", "nasi", "sembako",
           "makanan", "meal", "rice", "ration", "package", "paket",
           "logistik", "pangan", "dapur", "kitchen", "hunger", "lapar",
           "nutrisi", "nutrition"}
      [] a = "MEDICAL_AID" ->
          {"medis", "medical", "obat", "medicine", "sakit", "sick", "luka",
           "wound", "dokter", "doctor", "nurse", "perawat", "health",
           "kesehatan", "clinic", "klinik", "patient", "pasien", "injury",
           "cedera", "treatment", "pengobatan", "first aid", "p3k",
           "ambulan", "ambulance", "hospital", "rumah sakit"}
      [] a = "SHELTER_CONSTRUCTION" ->
          {"shelter", "rumah", "house", "bangunan", "building", "tenda",
           "tent", "konstruksi", "construction", "bangun", "build", "atap",
           "roof", "tempat tinggal", "hunian", "terpal", "tarpaulin",
           "fondasi", "foundation", "renovasi", "renovation", "perbaikan",
           "repair"}
      [] a = "EDUCATION_SESSION" ->
          {"belajar", "learn", "mengajar", "teach", "sekolah", "school",
           "kelas", "class", "edukasi", "education", "siswa", "student",
           "murid", "pelatihan", "training", "workshop", "seminar",
           "literacy", "literasi", "book", "buku", "skill", "keterampilan",
           "tutoring", "les", "mengaji", "reading"}
      [] a = "DISASTER_RELIEF" ->
          {"bencana", "disaster", "gempa", "earthquake", "banjir", "flood",
           "tsunami", "kebakaran", "fire", "longsor", "landslide",
           "evakuasi", "evacuation", "darurat", "emergency", "korban",
           "victim", "rescue", "penyelamatan", "bantuan darurat", "relief",
           "tanggap darurat"}
      [] a = "CLEAN_WATER_PROJECT" ->
          {"air", "water", "sumur", "well", "sanitasi", "sanitation",
           "bersih", "clean", "minum", "drinking", "filter", "pompa",
           "pump", "sumber air", "water source", "irigasi", "irrigation",
           "toilet", "MCK", "hygiene", "kebersihan"}
      [] a = "MENTAL_HEALTH_SUPPORT" ->
          {"mental", "psikologi", "psychology", "trauma", "counseling",
           "konseling", "stress", "anxiety", "depresi", "depression",
           "emotion", "emosi", "jiwa", "wellbeing", "kesehatan mental",
           "support group", "therapy", "terapi", "healing", "pemulihan",
           "grief", "dukacita"}
      [] a = "ENVIRONMENTAL_ACTION" ->
          {"lingkungan", "environment", "sampah", "trash", "garbage",
           "plastic", "plastik", "bersih", "clean", "tanam", "plant",
           "pohon", "tree", "recycle", "daur ulang", "polusi", "pollution",
           "pantai", "beach", "sungai", "river", "hutan", "forest",
           "mangrove", "solar", "energi"}
      [] OTHER -> {}

\* ACTION_CONSTRAINTS[a]["critical_requires_keyword"], where it is a list;
\* an empty list bans CRITICAL for the action
critical_requires_keyword(a) ==
    CASE a = "FOOD_DISTRIBUTION" ->
          {"bencana", "disaster", "darurat", "emergency", "pengungsi",
           "refugee", "banjir", "flood", "gempa", "earthquake", "crisis",
           "krisis"}
      [] a = "SHELTER_CONSTRUCTION" ->
          {"bencana", "disaster", "darurat", "emergency", "pengungsi"}
      [] a = "CLEAN_WATER_PROJECT" ->
          {"kekeringan", "drought", "darurat", "emergency", "kontaminasi",
           "contamination"}
      [] a = "MENTAL_HEALTH_SUPPORT" ->
          {"trauma", "bencana", "disaster", "krisis", "crisis", "suicide",
           "bunuh diri"}
      [] a = "ENVIRONMENTAL_ACTION" ->
          {"kebakaran hutan", "forest fire", "tumpahan minyak", "oil spill",
           "bencana lingkungan", "environmental disaster", "toxic", "beracun"}
      [] OTHER -> {}

\* critical_requires_keyword is None: CRITICAL needs no context
critical_unrestricted(a) == a \in {"MEDICAL_AID", "DISASTER_RELIEF"}

\* _detect_cross_action_contamination: the signatures of each action
STRONG_SIGNATURES(a) ==
    CASE a = "ENVIRONMENTAL_ACTION" ->
          {"pungut sampah", "bersih pantai", "tanam pohon", "recycle",
           "daur ulang"}
      [] a = "FOOD_DISTRIBUTION" ->
          {"distribusi makanan", "bagi nasi", "dapur umum", "sembako"}
      [] a = "EDUCATION_SESSION" ->
          {"mengajar", "belajar", "kelas", "sekolah", "workshop", "pelatihan"}
      [] a = "MEDICAL_AID" ->
          {"obati", "rawat pasien", "periksa kesehatan", "first aid"}
      [] a = "SHELTER_CONSTRUCTION" ->
          {"bangun rumah", "renovasi", "pasang tenda", "perbaikan rumah"}
      [] OTHER -> {}

\* _check_yolo_objects_vs_action: objects that do not fit the action
SUSPICIOUS_COMBO(a) ==
    CASE a = "DISASTER_RELIEF" ->
          {"tv", "monitor", "laptop", "couch", "bed"}
      [] a = "FOOD_DISTRIBUTION" ->
          {"car", "motorcycle"}
      [] OTHER -> {}

\* any(kw in desc_lower for kw in keywords)
contains_any(description, keywords) == description.terms \cap keywords # {}

\* _check_urgency, the branch of an admissible CRITICAL: the penalties
\* <<code, amount>> it adds
check_urgency_context(a, urgency, description) ==
    IF urgency \notin urgency_allowed(a) \/ urgency # "CRITICAL" \/ critical_unrestricted(a)
    THEN <<>>
    ELSE IF critical_requires_keyword(a) # {}
         THEN IF contains_any(description, critical_requires_keyword(a)) THEN <<>>
              ELSE << <<"critical_urgency_without_context", 30>> >>
         ELSE << <<"critical_urgency_banned_for_action", 40>> >>

\* the actions whose signatures occur in the description, the claimed one aside
detect_cross_action_contamination(description, a) ==
    {b \in {"ENVIRONMENTAL_ACTION", "FOOD_DISTRIBUTION", "EDUCATION_SESSION",
            "MEDICAL_AID", "SHELTER_CONSTRUCTION"} :
        b # a /\ contains_any(description, STRONG_SIGNATURES(b))}

\* _check_description_keywords
check_description_keywords(a, description) ==
    IF description.chars < 20 THEN << <<"description_too_short", 25>> >>
    ELSE (IF contains_any(description, require_any_keyword(a)) THEN <<>>
          ELSE << <<"description_keyword_mismatch", 25>> >>)
         \o (IF detect_cross_action_contamination(description, a) # {}
             THEN << <<"description_action_mismatch", 20>> >> ELSE <<>>)

\* _check_yolo_count_vs_claimed; without an image person_count_yolo is None,
\* carried as -1 (the layer returns at once for both).  The amount min(0.25, 0.10 + ratio / 100 * 0.05) is cut to hundredths.
check_yolo_count_vs_claimed(person_count_yolo, people_helped) ==
    IF person_count_yolo < 0 THEN <<>>
    ELSE IF person_count_yolo = 0 /\ people_helped > 5
         THEN << <<"no_people_visible_but_high_claimed", 15>> >>
    ELSE IF person_count_yolo > 0 /\ people_helped > person_count_yolo * 30
            /\ people_helped > 50
         THEN << <<"yolo_count_vs_claimed_mismatch",
                   Min(25, 10 + (people_helped * 5) \div (person_count_yolo * 100))>> >>
         ELSE <<>>

\* _check_yolo_objects_vs_action; detected_objects is the set of labels
check_yolo_objects_vs_action(detected_objects, a) ==
    IF detected_objects = {} THEN <<>>
    ELSE (IF "person" \notin detected_objects
             /\ a \in {"FOOD_DISTRIBUTION", "MEDICAL_AID", "EDUCATION_SESSION",
                       "DISASTER_RELIEF"}
          THEN << <<"no_person_detected_for_people_action", 20>> >> ELSE <<>>)
         \o (IF detected_objects \cap SUSPICIOUS_COMBO(a) # {}
             THEN << <<"suspicious_objects_detected", 15>> >> ELSE <<>>)

RECURSIVE amounts(_)
\* the sum of the amounts of a list of penalties
amounts(ps) == IF ps = <<>> THEN 0 ELSE Head(ps)[2] + amounts(Tail(ps))

\* the codes of a list of penalties, in order
codes(ps) == [i \in 1..Len(ps) |-> ps[i][1]]

\* the penalties of the four layers between the numeric ones and the model
context_penalties(a, urgency, people_helped, description, detection) ==
    check_urgency_context(a, urgency, description)
    \o check_description_keywords(a, description)
    \o check_yolo_count_vs_claimed(detection.person_count_yolo, people_helped)
    \o check_yolo_objects_vs_action(detection.detected_objects, a)

\* the penalty of a suspicious verdict: round(0.10 + confidence / 100 * 0.30, 2)
llm_suspicious_penalty(confidence) == 10 + (confidence * 30 + 50) \div 100

\* an answer of the vision-language model:
\*   transport     "ok", or how requests.post / raise_for_status / json.loads failed
\*   verdict       data["verdict"]
\*   confidence    data["confidence"] when it is a number
\*   numeric       whether data["confidence"] is a number
\*   issues_ok     whether '; '.join(data["inconsistencies"][:3]) can be built
\*   estimate      data["realistic_people_helped"]: "none", "number" or "text"
\* _llm_cross_validate: what the answer adds to the result.  The body runs
\* inside try/except: a statement that raises ends the layer and keeps what
\* the statements before it did.
llm_cross_validate(answer) ==
    LET nothing == [llm_verdict |-> None, llm_penalty |-> 0, llm_code |-> None,
                    llm_blocked |-> FALSE, llm_failed |-> FALSE]
        parsed  == [nothing EXCEPT !.llm_verdict = answer.verdict]
        raised(r) == [r EXCEPT !.llm_failed = TRUE]
        \* the estimate is compared with the claim after the verdict was applied
        estimate(r) == IF answer.estimate = "text" THEN raised(r) ELSE r
    IN  IF answer.transport # "ok" THEN raised(nothing)
        ELSE IF answer.verdict = "fabricated"
             THEN IF ~answer.numeric THEN raised(parsed)
                  ELSE IF answer.confidence >= 70
                       THEN IF ~answer.issues_ok THEN raised(parsed)
                            ELSE estimate([parsed EXCEPT !.llm_blocked = TRUE])
                       ELSE estimate(parsed)
        ELSE IF answer.verdict = "suspicious"
             THEN IF ~answer.numeric THEN raised(parsed)
                  ELSE IF answer.confidence >= 60
                       THEN estimate([parsed EXCEPT
                                !.llm_penalty = llm_suspicious_penalty(answer.confidence),
                                !.llm_code = "llm_suspicious_generic"])
                       ELSE estimate([parsed EXCEPT !.llm_penalty = 10,
                                                    !.llm_code = "llm_mild_suspicion"])
             ELSE estimate(parsed)

\* the model was not asked (blank description)
NotAsked == [llm_verdict |-> None, llm_penalty |-> 0, llm_code |-> None,
             llm_blocked |-> FALSE, llm_failed |-> FALSE]

\* the findings of the layers after the numeric ones, as validate takes them
findings(a, urgency, people_helped, description, detection, answer) ==
    LET ps  == context_penalties(a, urgency, people_helped, description, detection)
        llm == IF description.blank THEN NotAsked ELSE llm_cross_validate(answer)
    IN  [penalty      |-> amounts(ps) + llm.llm_penalty,
         hard_blocked |-> llm.llm_blocked,
         llm_verdict  |-> llm.llm_verdict,
         warnings     |-> codes(ps) \o (IF llm.llm_code = None THEN <<>>
                                        ELSE <<llm.llm_code>>),
         asked        |-> ~description.blank,
         llm_failed   |-> llm.llm_failed,
         llm_penalty  |-> llm.llm_penalty,
         llm_blocked  |-> llm.llm_blocked]

\* the codes the numeric layers add to result.warnings
numeric_warnings(a, urgency, effort_hours, people_helped) ==
    (IF check_effort_hours(a, effort_hours)[2] = 0 THEN <<>>
     ELSE IF effort_hours > max_effort_hours(a) THEN <<"effort_hours_inflated">>
     ELSE <<"effort_too_low_for_action">>)
    \o (IF check_people_helped(a, people_helped)[2] = 0 THEN <<>>
        ELSE <<"people_helped_inflated">>)
    \o (IF check_effort_people_ratio(a, effort_hours, people_helped)[2] = 0 THEN <<>>
        ELSE <<"effort_people_ratio_anomaly">>)
    \o (IF urgency_incompatible(a, urgency) THEN <<"urgency_incompatible_with_action">>
        ELSE <<>>)

\* the layers that called hard_block, in the order of their calls
blocked_by(a, effort_hours, people_helped, ext, total_penalty) ==
    (IF check_effort_hours(a, effort_hours)[1] THEN <<"effort">> ELSE <<>>)
    \o (IF check_people_helped(a, people_helped)[1] THEN <<"people">> ELSE <<>>)
    \o (IF check_effort_people_ratio(a, effort_hours, people_helped)[1]
        THEN <<"ratio">> ELSE <<>>)
    \o (IF ext.hard_blocked THEN <<"llm">> ELSE <<>>)
    \o (IF total_penalty >= 80 THEN <<"accumulated">> ELSE <<>>)

\* validate on a whole request: an unknown action returns at once
validate_request(q, answer) ==
    IF q.action_type \notin ActionTypes
    THEN [hard_blocked |-> FALSE, blocked_by |-> <<>>, total_penalty |-> 20,
          warnings |-> <<"unknown_action_type">>, llm_verdict |-> None,
          asked |-> FALSE, llm_failed |-> FALSE, llm_penalty |-> 0,
          llm_blocked |-> FALSE,
          adjusted_effort_hours |-> 0, adjusted_people_helped |-> 0]
    ELSE LET ext == findings(q.action_type, q.urgency_level, q.people_helped,
                             q.description, q.detection, answer)
             v   == validate(q.action_type, q.urgency_level, q.effort_hours,
                             q.people_helped, ext)
         IN  [hard_blocked |-> v.hard_blocked,
              blocked_by   |-> blocked_by(q.action_type, q.effort_hours,
                                          q.people_helped, ext, v.total_penalty),
              total_penalty |-> v.total_penalty,
              warnings     |-> numeric_warnings(q.action_type, q.urgency_level,
                                                q.effort_hours, q.people_helped)
                               \o ext.warnings,
              llm_verdict  |-> v.llm_verdict,
              asked        |-> ext.asked,
              llm_failed   |-> ext.llm_failed,
              llm_penalty  |-> ext.llm_penalty,
              llm_blocked  |-> ext.llm_blocked,
              adjusted_effort_hours  |-> v.adjusted_effort_hours,
              adjusted_people_helped |-> v.adjusted_people_helped]

(***************************************************************************)
(* FraudDetector: the soft checks of check_all on the image of a request.  *)
(* An image of the model is described by what the detector and the         *)
(* forensics read from it.                                                 *)
(***************************************************************************)
RATE_WINDOW_SEC    == 3600
MAX_SUBMITS_WINDOW == 5
EXIF_MAX_AGE_HOURS == 48
PHASH_THRESHOLD    == 10
\* the window of check_image_phash: 7 days
PHASH_WINDOW_SEC   == 7 * 24 * 3600
\* expire(streak_key, 7 * 24 * 3600)
STREAK_TTL_SEC     == 7 * 24 * 3600

Images == {"img_clean", "img_forged", "img_blurry", "img_live"}

ImageFacts(i) ==
    CASE i = "img_clean"  -> [source |-> "gallery", cv_confidence |-> 90, has_exif |-> TRUE,
                              age_hours |-> 2, gps_mismatch |-> FALSE, ela |-> "authentic"]
      [] i = "img_forged" -> [source |-> "gallery", cv_confidence |-> 90, has_exif |-> TRUE,
                              age_hours |-> 200, gps_mismatch |-> TRUE, ela |-> "suspicious"]
      [] i = "img_blurry" -> [source |-> "gallery", cv_confidence |-> 15, has_exif |-> FALSE,
                              age_hours |-> 0, gps_mismatch |-> FALSE, ela |-> "authentic"]
      [] i = "img_live"   -> [source |-> "live_capture", cv_confidence |-> 90, has_exif |-> FALSE,
                              age_hours |-> 0, gps_mismatch |-> FALSE, ela |-> "possibly_edited"]
      [] OTHER            -> [source |-> "gallery", cv_confidence |-> 0, has_exif |-> FALSE,
                              age_hours |-> 0, gps_mismatch |-> FALSE, ela |-> "no_image"]

\* check_exif: authenticity_penalty, capped at 0.50
check_exif(i) ==
    LET f == ImageFacts(i)
        age_penalty == IF f.age_hours > EXIF_MAX_AGE_HOURS
                       THEN (IF f.age_hours > 168 THEN 30 ELSE 15) ELSE 0
        gps_penalty == IF f.gps_mismatch THEN 25 ELSE 0
    IN  IF i = None \/ f.source = "live_capture" THEN 0
        ELSE IF ~f.has_exif THEN 15
        ELSE Min(age_penalty + gps_penalty, 50)

\* check_ela: penalty by verdict
check_ela(i) ==
    LET verdict == ImageFacts(i).ela
    IN  IF i = None THEN 0
        ELSE IF verdict = "suspicious" THEN 30
        ELSE IF verdict = "possibly_edited" THEN 10
        ELSE 0

\* check_exif: the warnings
check_exif_warnings(i) ==
    LET f == ImageFacts(i)
    IN  IF i = None \/ f.source = "live_capture" THEN <<>>
        ELSE IF ~f.has_exif THEN <<"no_exif_metadata">>
        ELSE (IF f.age_hours > EXIF_MAX_AGE_HOURS THEN <<"photo_too_old">> ELSE <<>>)
             \o (IF f.gps_mismatch THEN <<"gps_mismatch">> ELSE <<>>)

\* check_all step 5: the warning of a verdict other than no_image, authentic
check_ela_warnings(i) ==
    LET verdict == ImageFacts(i).ela
    IN  IF i = None \/ verdict \in {"no_image", "authentic"} THEN <<>>
        ELSE IF verdict = "suspicious" THEN <<"ela_suspicious">>
        ELSE IF verdict = "possibly_edited" THEN <<"ela_possibly_edited">>
        ELSE <<"ela_unknown">>

\* check_all, steps 4 and 5 and the cap at 0.60
soft_penalty(i) ==
    IF i = None THEN 0 ELSE Min(check_exif(i) + check_ela(i), 60)

\* check_rate_limit: the timestamps of the window
prune(times, t) == SelectSeq(times, LAMBDA x : x >= t - RATE_WINDOW_SEC)

\* check_all step 2 is skipped for the empty and the all-zero hash
dedup_applies(h) == h # "" /\ h # ZERO_HASH

\* check_sha256: ok, or the reason of the block
check_sha256(store, h, volunteer_address) ==
    LET first == store[Lower(h)]
    IN  IF first # None
        THEN (IF first = Lower(volunteer_address) THEN "duplicate_self"
                                                  ELSE "duplicate_other")
        ELSE "ok"

\* record_sha256: SETNX
record_sha256(store, h, volunteer_address) ==
    IF store[Lower(h)] = None
    THEN [store EXCEPT ![Lower(h)] = Lower(volunteer_address)]
    ELSE store

\* check_rate_limit: ok and the rate store it leaves; the pruned list is
\* saved only when the request passes
check_rate_limit(store, volunteer_address, t) ==
    LET addr  == Lower(volunteer_address)
        times == prune(store[addr], t)
    IN  IF Len(times) >= MAX_SUBMITS_WINDOW
        THEN [ok |-> FALSE, store |-> store]
        ELSE [ok |-> TRUE,  store |-> [store EXCEPT ![addr] = times]]

\* _dhash: the fingerprint of an image as the set of its 1 bits
dhash(i) ==
    CASE i = "img_clean"  -> {}
      [] i = "img_forged" -> 1..9
      [] i = "img_blurry" -> 1..10
      [] i = "img_live"   -> 1..30
      [] OTHER            -> {}

\* _hamming_distance: the number of bits in which two fingerprints differ
hamming_distance(h1, h2) == Cardinality((h1 \ h2) \cup (h2 \ h1))

\* lpush + ltrim on satin:fraud:phash
push_phash(store, item) ==
    SubSeq(<<item>> \o store, 1, Min(Len(store) + 1, PHASH_KEEP))

\* check_image_phash with a block at the threshold distance itself
check_image_phash_at(store, image, volunteer_address, t) ==
    LET dh     == dhash(image)
        window == t - PHASH_WINDOW_SEC
        near   == \E k \in 1..Len(store) :
                      /\ store[k].t >= window
                      /\ hamming_distance(dh, store[k].h) <= PHASH_THRESHOLD
                      /\ store[k].v # Lower(volunteer_address)
        new_item == [h |-> dh, v |-> Lower(volunteer_address), t |-> t]
    IN  IF near THEN [ok |-> FALSE, store |-> store]
                ELSE [ok |-> TRUE,  store |-> push_phash(store, new_item)]

\* check_image_phash: ok and the fingerprint store it leaves
check_image_phash(store, image, volunteer_address, t) ==
    LET dh     == dhash(image)
        window == t - PHASH_WINDOW_SEC
        near   == \E k \in 1..Len(store) :
                      /\ store[k].t >= window
                      /\ hamming_distance(dh, store[k].h) < PHASH_THRESHOLD
                      /\ store[k].v # Lower(volunteer_address)
        new_item == [h |-> dh, v |-> Lower(volunteer_address), t |-> t]
    IN  IF near THEN [ok |-> FALSE, store |-> store]
                ELSE [ok |-> TRUE,  store |-> push_phash(store, new_item)]

\* the result of check_all on a hard block
blocked(reason, rate_store, phash_store) ==
    [ok |-> FALSE, reason |-> reason, warnings |-> <<>>, authenticity_penalty |-> 0,
     exif_penalty |-> 0, rate |-> rate_store, phash |-> phash_store]

\* check_all with the exact-duplicate check ahead of the rate limit
check_all_dedup_first(rate_store, sha_store, phash_store, volunteer_address, hash_sha256, image, t) ==
    LET r1 == check_rate_limit(rate_store, volunteer_address, t)
        r2 == IF dedup_applies(hash_sha256)
              THEN check_sha256(sha_store, hash_sha256, volunteer_address)
              ELSE "ok"
        r3 == IF image # None
              THEN check_image_phash(phash_store, image, volunteer_address, t)
              ELSE [ok |-> TRUE, store |-> phash_store]
    IN  IF r2 # "ok" THEN blocked(r2, rate_store, phash_store)
        ELSE IF ~r1.ok THEN blocked("rate_limited", rate_store, phash_store)
        ELSE IF ~r3.ok THEN blocked("near_duplicate", r1.store, phash_store)
        ELSE [ok |-> TRUE, reason |-> None,
              warnings |-> check_exif_warnings(image) \o check_ela_warnings(image),
              authenticity_penalty |-> soft_penalty(image),
              exif_penalty |-> check_exif(image),
              rate |-> r1.store, phash |-> r3.store]

\* check_all: rate limit, exact duplicate, near-duplicate image, capture
\* metadata, manipulation forensics; the result and the stores it leaves
check_all(rate_store, sha_store, phash_store, volunteer_address, hash_sha256, image, t) ==
    LET r1 == check_rate_limit(rate_store, volunteer_address, t)
        r2 == IF dedup_applies(hash_sha256)
              THEN check_sha256(sha_store, hash_sha256, volunteer_address)
              ELSE "ok"
        r3 == IF image # None
              THEN check_image_phash(phash_store, image, volunteer_address, t)
              ELSE [ok |-> TRUE, store |-> phash_store]
    IN  IF ~r1.ok THEN blocked("rate_limited", rate_store, phash_store)
        ELSE IF r2 # "ok" THEN blocked(r2, r1.store, phash_store)
        ELSE IF ~r3.ok THEN blocked("near_duplicate", r1.store, phash_store)
        ELSE [ok |-> TRUE, reason |-> None,
              warnings |-> check_exif_warnings(image) \o check_ela_warnings(image),
              authenticity_penalty |-> soft_penalty(image),
              exif_penalty |-> check_exif(image),
              rate |-> r1.store, phash |-> r3.store]

(***************************************************************************)
(* Inputs of the requests.                                                 *)
(***************************************************************************)
\* action_type, urgency_level, effort_hours, people_helped of a request
Claims ==
    { [action_type |-> "DISASTER_RELIEF",      urgency_level |-> "CRITICAL",
       effort_hours |-> 72, people_helped |-> 100],
      [action_type |-> "FOOD_DISTRIBUTION",    urgency_level |-> "HIGH",
       effort_hours |-> 8,  people_helped |-> 16],
      [action_type |-> "ENVIRONMENTAL_ACTION", urgency_level |-> "LOW",
       effort_hours |-> 1,  people_helped |-> 2],
      [action_type |-> "EDUCATION_SESSION",    urgency_level |-> "CRITICAL",
       effort_hours |-> 10, people_helped |-> 50] }

\* what the description, detector and vision-language layers of validate add
ExtFindings ==
    { [penalty |-> 0,  hard_blocked |-> FALSE, llm_verdict |-> "consistent"],
      [penalty |-> 25, hard_blocked |-> FALSE, llm_verdict |-> None],
      [penalty |-> 30, hard_blocked |-> FALSE, llm_verdict |-> "suspicious"],
      [penalty |-> 0,  hard_blocked |-> TRUE,  llm_verdict |-> "fabricated"] }

Votes     == {"approve", "reject", "abstain"}
\* reputation in hundredths: 499.99 and 500.00
RepInputs == {49999, 50000}
\* getReputation: the ledger's cumulativeScore, or Unavailable when the
\* lookup is not configured or fails
Unavailable   == -1
LedgerAnswers == {Unavailable, 49999, 50000}

Slots == {1, 2}

(***************************************************************************)
(* State.                                                                  *)
(***************************************************************************)
VARIABLES
    now,                 \* int(time.time())
    banned,              \* satin:banned:{addr}
    sha256,              \* satin:fraud:sha256:{hash} -> first submitter
    rate,                \* satin:fraud:rate:{addr} -> submission times
    param_manip_streak,  \* satin:param_manip_streak:{addr}
    reject_streak,       \* satin:reject_streak:{addr}
    stream,              \* satin:stream_store, newest first
    vote_store,          \* satin:vote_store:{event_id}
    nextEvent,           \* number of event ids drawn so far (uuid4)
    opened_by,           \* submitter of each event, as the handler knew it
    vreq,                \* verify requests in flight
    creq,                \* cast_vote requests in flight
    nVerify,             \* verify requests started
    nVote,               \* cast_vote requests started
    resp,                \* response of the last verify request that ended
    vresp,               \* response of the last cast_vote request that ended
    phash,               \* satin:fraud:phash, newest first
    fraud,               \* the last call of check_all and its result
    cresp,               \* response of the last get_claim request
    signed,              \* signed attestations created so far, by event id
    issued,              \* times of the requests that got past check_rate_limit
    recorded,            \* every fingerprint check_image_phash has stored
    param_result,        \* the last result of validator.validate
    evaluated,           \* the last submission evaluator.evaluate was called with
    validation,          \* the last call of ParameterValidator.validate on a whole request
    calculation,         \* the last call of ImpactScoreCalculator.calculate
    expire_at            \* the expiry times of the two streak keys (redis EXPIRE)

vars == <<now, banned, sha256, rate, param_manip_streak, reject_streak, stream,
          vote_store, nextEvent, opened_by, vreq, creq, nVerify, nVote, resp, vresp,
          phash, fraud, cresp, signed, issued, recorded, param_result,
          evaluated, validation, calculation, expire_at>>

\* what only the verify flow writes, beside the stores
verify_side == <<phash, fraud, issued, recorded>>

redis == <<banned, sha256, rate, param_manip_streak, reject_streak, stream, vote_store,
           expire_at>>

IdleVerify == [pc |-> "idle", volunteer_address |-> None, hash_sha256 |-> None,
               image |-> None, authenticity_penalty |-> 0]

EmptyVotes == [v \in {} |-> None]

(***************************************************************************)
(* The signed attestation.  Digests and signatures are symbolic: a digest  *)
(* is the list of ABI types with the values it was computed from, a        *)
(* signature names its signer and the digest it was made over, and         *)
(* recovery yields the signer exactly for that digest.                     *)
(***************************************************************************)
ZERO_ADDRESS   == "0x0000000000000000000000000000000000000000"
oracle_address == "0x04ac1e"

\* the ABI types of the tuple BenevolenceVault hashes, in order
SigningTypes ==
    <<"bytes32", "address", "address", "uint256", "uint256",
      "bytes32", "bytes32", "string", "uint256">>

\* Web3.to_checksum_address: one spelling for every case variant
to_checksum_address(a) == Lower(a)

\* _build_signing_hash: keccak256(abi.encode(eventId, volunteerAddress,
\* beneficiaryAddress, impactScoreScaled, tokenRewardWei, zkProofHash,
\* eventHash, nonce, expiresAt)).  zkProofHash, eventHash and expiresAt are
\* handed out as they were hashed and are carried by the event id; the
\* nonce (uuid4) is the number of the signature drawn for the event.
build_signing_hash(event_id, volunteer_address, beneficiary_address, impact_score_scaled, token_reward_wei, nonce) ==
    [types              |-> SigningTypes,
     eventId            |-> event_id,
     volunteerAddress   |-> to_checksum_address(volunteer_address),
     beneficiaryAddress |-> to_checksum_address(beneficiary_address),
     impactScoreScaled  |-> impact_score_scaled,
     tokenRewardWei     |-> token_reward_wei,
     nonce              |-> nonce]

\* OracleSigner.sign_payload_hash: Account.sign_message(encode_defunct(hash))
sign_payload_hash(payload_hash) ==
    [signer |-> oracle_address, message |-> payload_hash]

\* ecrecover on the Ethereum-prefixed digest
recover(payload_hash, signature) ==
    IF signature.message = payload_hash THEN signature.signer ELSE ZERO_ADDRESS

\* _evaluate_internal: the beneficiary that is hashed
hashed_beneficiary(beneficiary_address, volunteer_address) ==
    IF beneficiary_address # "" /\ beneficiary_address # ZERO_ADDRESS
    THEN beneficiary_address ELSE volunteer_address

\* OraclePayload.to_contract_args
to_contract_args(event_id, volunteer_address, beneficiary_address, impact_score_scaled, token_reward_wei, nonce) ==
    [eventId            |-> event_id,
     volunteerAddress   |-> IF volunteer_address = "" THEN oracle_address
                                                      ELSE volunteer_address,
     beneficiaryAddress |-> IF beneficiary_address = "" THEN ZERO_ADDRESS
                                                        ELSE beneficiary_address,
     impactScoreScaled  |-> impact_score_scaled,
     tokenRewardWei     |-> token_reward_wei,
     nonce              |-> nonce]

\* the digest the verifier computes from the arguments it is called with
verifier_hash(args) ==
    build_signing_hash(args.eventId, args.volunteerAddress, args.beneficiaryAddress,
                       args.impactScoreScaled, args.tokenRewardWei, args.nonce)

\* no attestation
NoContractArgs == to_contract_args(0, None, None, 0, 0, 0)
NoSignature    == [signer |-> None, message |-> verifier_hash(NoContractArgs)]
NoSigned       == [args |-> NoContractArgs, signature |-> NoSignature]

\* the beneficiary of the requests that do not vary it
SomeBeneficiary == "0xbe"

\* contract_args of a case whose claim payload was never built
NoArgs == [impact_score |-> 0, token_reward |-> 0,
           impactScoreScaled |-> 0, tokenRewardWei |-> 0]

\* the value of a vote_store key that was never set
NoCase == [exists |-> FALSE, votes |-> EmptyVotes, opened_at |-> 0, outcome |-> None,
           needs_champion_audit |-> FALSE, claim_payload |-> FALSE,
           claim_contract_args |-> NoArgs, claim_signed |-> NoSigned]

IdleVote == [pc |-> "idle", event_id |-> 0, voter_address |-> None, vote |-> None,
             vd |-> NoCase]

NoResp == [kind |-> "none", event_id |-> 0, raw_score |-> 0, impact_score |-> 0,
           impact_scaled |-> 0, token_reward |-> 0, token_reward_wei |-> 0,
           penalty |-> 0, contract_args |-> FALSE, review_case |-> FALSE,
           signing_failed |-> FALSE, args |-> NoContractArgs,
           signature |-> NoSignature]

NoVoteResp == [code |-> "none", reputation_score |-> 0, verified |-> FALSE,
               age_sec |-> 0, audit |-> FALSE, signing_failed |-> FALSE]

\* no call of check_all so far
NoFraud == [call |-> 0, volunteer_address |-> None, hash_sha256 |-> None, image |-> None,
            ok |-> TRUE, reason |-> None, warnings |-> <<>>,
            authenticity_penalty |-> 0, exif_penalty |-> 0]

\* no call of validate so far
NoParamResult == [hard_blocked |-> FALSE, total_penalty |-> 0,
                  penalties |-> <<0, 0, 0, 0, 0>>, totals |-> <<0, 0, 0, 0, 0>>]

\* no call of evaluator.evaluate so far
NoEvaluated == [called |-> FALSE, action_type |-> None,
                effort_hours |-> 0, people_helped |-> 0,
                adjusted_effort_hours |-> 0, adjusted_people_helped |-> 0,
                evidence_effort_hours |-> 0, evidence_people_helped |-> 0,
                effort2 |-> 0, capped2 |-> 0]

\* no call of validate on a whole request so far
NoRequest == [action_type |-> None, urgency_level |-> None, effort_hours |-> 0,
              people_helped |-> 0,
              description |-> [chars |-> 0, blank |-> TRUE, terms |-> {}],
              detection |-> [person_count_yolo |-> -1, detected_objects |-> {}]]

NoAnswer == [transport |-> None, verdict |-> None, confidence |-> 0,
             numeric |-> TRUE, issues_ok |-> TRUE, estimate |-> "none"]

NoValidation == [called |-> FALSE, request |-> NoRequest, answer |-> NoAnswer,
                 result |-> validate_request(NoRequest, NoAnswer)]

\* no streak key has an expiry time
NoExpiry == [param |-> [a \in LowAddrs |-> 0], reject |-> [a \in LowAddrs |-> 0]]

\* no call of calculate so far
NoCalculation == [called |-> FALSE, action_type |-> None, urgency_level |-> None,
                  effort2 |-> 0, poverty_index |-> 0, ai_confidence |-> 0, score |-> 0]

NoClaimResp == [code |-> "none", event_id |-> 0, contract_args |-> NoArgs,
                signing_failed |-> FALSE, signed |-> NoSigned]

Init ==
    /\ now = 0
    /\ banned = {}
    /\ sha256 = [h \in LowHashes |-> None]
    /\ rate = [a \in LowAddrs |-> <<>>]
    /\ param_manip_streak = [a \in LowAddrs |-> 0]
    /\ reject_streak = [a \in LowAddrs |-> 0]
    /\ stream = <<>>
    /\ vote_store = [e \in EventIds |-> NoCase]
    /\ nextEvent = 0
    /\ opened_by = [e \in EventIds |-> None]
    /\ vreq = [s \in Slots |-> IdleVerify]
    /\ creq = [s \in Slots |-> IdleVote]
    /\ nVerify = 0
    /\ nVote = 0
    /\ resp = NoResp
    /\ vresp = NoVoteResp
    /\ phash = <<>>
    /\ fraud = NoFraud
    /\ cresp = NoClaimResp
    /\ signed = [e \in EventIds |-> 0]
    /\ issued = [a \in LowAddrs |-> <<>>]
    /\ recorded = {}
    /\ param_result = NoParamResult
    /\ evaluated = NoEvaluated
    /\ validation = NoValidation
    /\ calculation = NoCalculation
    /\ expire_at = NoExpiry

\* time passes, to a later point of T
\* a key with an expiry time is gone once the time is reached
expire_key_early(value, deadline, t) == IF deadline > 0 /\ t + 1 >= deadline THEN 0 ELSE value

\* redis EXPIRE: the streak key is gone once its time is reached
expire_key(value, deadline, t) == IF deadline > 0 /\ t >= deadline THEN 0 ELSE value

\* INCR + EXPIRE set the expiry time anew, DEL removes it with the key
next_expiry(before, after, deadline, t) ==
    IF after > before THEN t + STREAK_TTL_SEC ELSE IF after = 0 THEN 0 ELSE deadline

Advance(T) ==
    /\ \E t \in T :
          /\ t > now
          /\ now' = t
          /\ param_manip_streak' =
                 [a \in LowAddrs |-> expire_key(param_manip_streak[a], expire_at.param[a], t)]
          /\ reject_streak' =
                 [a \in LowAddrs |-> expire_key(reject_streak[a], expire_at.reject[a], t)]
          /\ expire_at' =
                 [param  |-> [a \in LowAddrs |-> expire_key(expire_at.param[a],
                                                           expire_at.param[a], t)],
                  reject |-> [a \in LowAddrs |-> expire_key(expire_at.reject[a],
                                                           expire_at.reject[a], t)]]
    /\ UNCHANGED <<banned, sha256, rate, stream, vote_store, nextEvent, opened_by, vreq,
                   creq, nVerify, nVote, resp, vresp, verify_side, cresp, signed,
                   param_result, evaluated, validation, calculation>>

Tick == Advance(TimePoints)

\* a new request takes the first free handler
FreeSlot(req, s) == req[s].pc = "idle" /\ \A t \in Slots : t < s => req[t].pc # "idle"

(***************************************************************************)
(* POST /api/v1/verify, first part: the ban check and                      *)
(* fraud_detector.check_all (rate limit, exact duplicate, soft checks).    *)
(* A request that passes goes on to the validator, whose vision-language   *)
(* call it waits for.                                                      *)
(***************************************************************************)
VerifyBegin(s, volunteer_address, hash_sha256, image) ==
    LET addr_lower == Lower(volunteer_address)
    IN  /\ nVerify < MaxVerify
        /\ FreeSlot(vreq, s)
        /\ nVerify' = nVerify + 1
        /\ IF addr_lower \in banned
           THEN /\ resp' = [NoResp EXCEPT !.kind = "banned"]
                /\ UNCHANGED <<rate, vreq, verify_side>>
           ELSE \E r \in {check_all(rate, sha256, phash, volunteer_address,
                                     hash_sha256, image, now)} :
                /\ rate' = r.rate
                /\ phash' = r.phash
                /\ fraud' = [call |-> nVerify + 1,
                             volunteer_address |-> volunteer_address,
                             hash_sha256 |-> hash_sha256, image |-> image,
                             ok |-> r.ok, reason |-> r.reason, warnings |-> r.warnings,
                             authenticity_penalty |-> r.authenticity_penalty,
                             exif_penalty |-> r.exif_penalty]
                /\ recorded' = recorded \cup {r.phash[k] : k \in 1..Len(r.phash)}
                /\ issued' = IF r.reason = "rate_limited" THEN issued
                             ELSE [issued EXCEPT ![addr_lower] = Append(@, now)]
                /\ IF ~r.ok
                   THEN /\ resp' = [NoResp EXCEPT !.kind = r.reason]
                        /\ UNCHANGED vreq
                   ELSE /\ vreq' = [vreq EXCEPT ![s] =
                                      [pc |-> "validating",
                                       volunteer_address |-> volunteer_address,
                                       hash_sha256 |-> hash_sha256,
                                       image |-> image,
                                       authenticity_penalty |-> r.authenticity_penalty]]
                        /\ UNCHANGED resp
        /\ UNCHANGED <<now, banned, sha256, param_manip_streak, reject_streak, stream,
                       vote_store, nextEvent, opened_by, creq, nVote, vresp, cresp, signed,
                       param_result, evaluated, validation, calculation, expire_at>>

\* lpush + ltrim on satin:stream_store
push_stream(feed, entry) ==
    SubSeq(<<entry>> \o feed, 1, Min(Len(feed) + 1, STREAM_KEEP))

\* vote_data of a freshly opened case
open_case(audit) ==
    [exists |-> TRUE, votes |-> EmptyVotes, opened_at |-> now, outcome |-> None,
     needs_champion_audit |-> audit, claim_payload |-> FALSE,
     claim_contract_args |-> NoArgs, claim_signed |-> NoSigned]

\* fraud_result.get("is_high_risk", False): check_all never sets the key
is_high_risk == FALSE

\* the penalty verify_impact hands to evaluator.evaluate: the call passes
\* evidence and image_bytes only, so the parameter keeps its default 0.0
evaluate_penalty(total_authenticity_penalty) == 0

\* `a or b` on numbers: b when a is 0
either(a, b) == IF a # 0 THEN a ELSE b

\* the rest of verify_impact once the validator's result pr, the combined
\* penalty and the evaluator's result ev are known: streaks and bans, the
\* review case or the signed attestation, the feed, the records
VerifyRespond(s, claim, pr, total_authenticity_penalty, ev, sign_ok, beneficiary_address) ==
    LET r          == vreq[s]
        addr_lower == Lower(r.volunteer_address)
        manip      == pr.hard_blocked \/ pr.total_penalty > 20
        streak     == param_manip_streak[addr_lower] + 1
        event_id   == nextEvent + 1
        adjusted   == IF total_authenticity_penalty > 0
                      THEN Penalized(ev.impact_score, total_authenticity_penalty)
                      ELSE ev.impact_score
        low_score_entry == [event_id |-> event_id,
                            volunteer_address |-> r.volunteer_address,
                            impact_score |-> ev.impact_score, token_reward |-> 0]
        stream_entry    == [event_id |-> event_id,
                            volunteer_address |-> r.volunteer_address,
                            impact_score |-> adjusted,
                            token_reward |-> ev.token_reward_wei]
        audit_ok   == is_high_risk \/ (claim.urgency_level = "CRITICAL" /\ ev.ai_confidence < 60)
        audit_low  == is_high_risk \/ claim.urgency_level = "CRITICAL"
        effective_effort_hours  == either(pr.adjusted_effort_hours, claim.effort_hours)
        effective_people_helped == either(pr.adjusted_people_helped, claim.people_helped)
        signing_hash == build_signing_hash(
                            event_id, r.volunteer_address,
                            hashed_beneficiary(beneficiary_address, r.volunteer_address),
                            ev.impact_scaled, ev.token_reward_wei, 1)
        needs_review == \/ ev.ai_confidence < COMMUNITY_REVIEW_CONFIDENCE
                        \/ audit_ok
                        \/ pr.total_penalty >= 30
                        \/ pr.llm_verdict \in {"suspicious", "fabricated"}
    IN  /\ vreq' = [vreq EXCEPT ![s] = IdleVerify]
        /\ param_result' = [hard_blocked |-> pr.hard_blocked,
                            total_penalty |-> pr.total_penalty,
                            penalties |-> pr.penalties, totals |-> pr.totals]
        /\ evaluated' =
               IF pr.hard_blocked THEN evaluated
               ELSE [called |-> TRUE, action_type |-> claim.action_type,
                     effort_hours |-> claim.effort_hours,
                     people_helped |-> claim.people_helped,
                     adjusted_effort_hours |-> pr.adjusted_effort_hours,
                     adjusted_people_helped |-> pr.adjusted_people_helped,
                     evidence_effort_hours |-> effective_effort_hours,
                     evidence_people_helped |-> effective_people_helped,
                     effort2 |-> ev.effort2, capped2 |-> ev.capped2]
        /\ banned' = IF manip /\ streak >= PARAM_MANIP_STREAK_BAN
                     THEN banned \cup {addr_lower} ELSE banned
        /\ IF pr.hard_blocked
           THEN \* 422 Parameter Integrity Violation
                /\ param_manip_streak' = [param_manip_streak EXCEPT ![addr_lower] = streak]
                /\ resp' = [NoResp EXCEPT !.kind = "param_block"]
                /\ UNCHANGED <<sha256, rate, stream, vote_store, nextEvent, opened_by,
                               signed>>
           ELSE IF ~ev.verified
           THEN \* EvaluationFailedError "Insufficient impact": community review
                /\ param_manip_streak' =
                       IF manip THEN [param_manip_streak EXCEPT ![addr_lower] = streak]
                                ELSE param_manip_streak
                /\ nextEvent' = event_id
                /\ opened_by' = [opened_by EXCEPT ![event_id] = r.volunteer_address]
                /\ stream' = push_stream(stream, low_score_entry)
                /\ vote_store' = [vote_store EXCEPT ![event_id] = open_case(audit_low)]
                /\ resp' = [kind |-> "review", event_id |-> event_id,
                            raw_score |-> ev.raw_impact_score,
                            impact_score |-> ev.impact_score, impact_scaled |-> 0,
                            token_reward |-> 0, token_reward_wei |-> 0,
                            penalty |-> total_authenticity_penalty,
                            contract_args |-> FALSE, review_case |-> TRUE,
                            signing_failed |-> FALSE, args |-> NoContractArgs,
                            signature |-> NoSignature]
                /\ UNCHANGED <<sha256, rate, signed>>
           ELSE IF ~sign_ok
           THEN \* the exception of the signer leaves evaluator.evaluate and
                \* verify_impact: 500
                /\ param_manip_streak' =
                       IF manip THEN [param_manip_streak EXCEPT ![addr_lower] = streak]
                                ELSE param_manip_streak
                /\ resp' = [NoResp EXCEPT !.kind = "error", !.signing_failed = TRUE]
                /\ UNCHANGED <<sha256, rate, stream, vote_store, nextEvent, opened_by,
                               signed>>
           ELSE \* signed attestation
                /\ param_manip_streak' =
                       IF pr.total_penalty < 10
                       THEN [param_manip_streak EXCEPT ![addr_lower] = 0]
                       ELSE IF manip
                       THEN [param_manip_streak EXCEPT ![addr_lower] = streak]
                       ELSE param_manip_streak
                /\ nextEvent' = event_id
                /\ opened_by' = [opened_by EXCEPT ![event_id] = r.volunteer_address]
                /\ stream' = push_stream(stream, stream_entry)
                /\ vote_store' = IF needs_review
                                 THEN [vote_store EXCEPT ![event_id] = open_case(audit_ok)]
                                 ELSE vote_store
                /\ sha256' = record_sha256(sha256, r.hash_sha256, r.volunteer_address)
                /\ rate' = [rate EXCEPT ![addr_lower] = Append(@, now)]
                /\ signed' = [signed EXCEPT ![event_id] = @ + 1]
                /\ resp' = [kind |-> "attested", event_id |-> event_id,
                            raw_score |-> ev.raw_impact_score,
                            impact_score |-> adjusted,
                            impact_scaled |-> ev.impact_scaled,
                            token_reward |-> ev.token_reward_wei,
                            token_reward_wei |-> ev.token_reward_wei,
                            penalty |-> total_authenticity_penalty,
                            contract_args |-> TRUE, review_case |-> needs_review,
                            signing_failed |-> FALSE,
                            args |-> to_contract_args(
                                         event_id, r.volunteer_address,
                                         beneficiary_address, ev.impact_scaled,
                                         ev.token_reward_wei, 1),
                            signature |-> sign_payload_hash(signing_hash)]
        /\ expire_at' = [expire_at EXCEPT !.param[addr_lower] =
                             next_expiry(param_manip_streak[addr_lower],
                                         param_manip_streak'[addr_lower], @, now)]
        /\ UNCHANGED <<now, reject_streak, creq, nVerify, nVote, vresp, verify_side, cresp,
                       validation, calculation>>

(***************************************************************************)
(* POST /api/v1/verify, second part: the validator's result, the combined  *)
(* penalty (capped at 0.85, plus 0.10 for a stale live capture),           *)
(* evaluator.evaluate and the recording of the outcome.  sign_ok: building *)
(* and signing the attestation raises nothing; beneficiary_address: the    *)
(* beneficiary the request names.                                          *)
(***************************************************************************)
VerifyFinishFor(s, claim, ext, stale, sign_ok, beneficiary_address) ==
    /\ vreq[s].pc = "validating"
    /\ stale => (vreq[s].image # None /\ ImageFacts(vreq[s].image).source = "live_capture")
    /\ \E pr \in {validate(claim.action_type, claim.urgency_level,
                            claim.effort_hours, claim.people_helped, ext)} :
       \E total_authenticity_penalty \in
              {IF stale
               THEN Min(100, Min(85, vreq[s].authenticity_penalty + pr.total_penalty) + 10)
               ELSE Min(85, vreq[s].authenticity_penalty + pr.total_penalty)} :
       \E ev \in {evaluate_internal(
                     claim.action_type,
                     effective_urgency(claim.action_type, claim.urgency_level,
                                       pr.urgency_warning),
                     either(pr.adjusted_effort_hours, claim.effort_hours),
                     either(pr.adjusted_people_helped, claim.people_helped),
                     vreq[s].image # None, ImageFacts(vreq[s].image).cv_confidence,
                     evaluate_penalty(total_authenticity_penalty))} :
           VerifyRespond(s, claim, pr, total_authenticity_penalty, ev, sign_ok,
                         beneficiary_address)

\* the second part of a verify request that names a beneficiary of its own
VerifyFinishSigner(s, claim, ext, stale, sign_ok) ==
    VerifyFinishFor(s, claim, ext, stale, sign_ok, SomeBeneficiary)

\* the second part of a verify request with a signer that works
VerifyFinish(s, claim, ext, stale) == VerifyFinishSigner(s, claim, ext, stale, TRUE)

(***************************************************************************)
(* POST /api/v1/vote                                                       *)
(***************************************************************************)
\* the key of a voter in the vote map
voter_key(voter_address) == Lower(voter_address)

\* reputation_score of cast_vote, in hundredths: the ledger's
\* cumulativeScore / 100.0 when the lookup answers, body.reputation_score
\* otherwise
effective_reputation(body_reputation, ledger) ==
    IF ledger # Unavailable THEN ledger ELSE body_reputation

\* phase_check with the phase-2 boundary off by one: a case that is exactly
\* VOTE_PHASE2_DELAY_SEC old still counts as phase 1
phase_check_late(needs_champion_audit, age_sec, reputation_score) ==
    IF needs_champion_audit
    THEN (IF reputation_score < CHAMPION_REPUTATION_THRESHOLD * 100
          THEN "403_audit" ELSE "ok")
    ELSE (IF age_sec <= VOTE_PHASE2_DELAY_SEC
             /\ reputation_score < CHAMPION_REPUTATION_THRESHOLD * 100
          THEN "403_phase" ELSE "ok")

\* the phase check: "ok" or the refusal
phase_check(needs_champion_audit, age_sec, reputation_score) ==
    IF needs_champion_audit
    THEN (IF reputation_score < CHAMPION_REPUTATION_THRESHOLD * 100
          THEN "403_audit" ELSE "ok")
    ELSE (IF age_sec < VOTE_PHASE2_DELAY_SEC
             /\ reputation_score < CHAMPION_REPUTATION_THRESHOLD * 100
          THEN "403_phase" ELSE "ok")

\* the first entry of the feed with this event id, or None
find_submitter(feed, event_id) ==
    IF \E i \in 1..Len(feed) : feed[i].event_id = event_id
    THEN feed[CHOOSE i \in 1..Len(feed) :
                 /\ feed[i].event_id = event_id
                 /\ \A j \in 1..(i - 1) : feed[j].event_id # event_id].volunteer_address
    ELSE None

\* no entry of the feed has the event id
NoEntry == [event_id |-> 0, volunteer_address |-> None, impact_score |-> 0,
            token_reward |-> 0]

\* the first entry of the feed with this event id, or NoEntry
find_entry(feed, event_id) ==
    IF \E i \in 1..Len(feed) : feed[i].event_id = event_id
    THEN feed[CHOOSE i \in 1..Len(feed) :
                 /\ feed[i].event_id = event_id
                 /\ \A j \in 1..(i - 1) : feed[j].event_id # event_id]
    ELSE NoEntry

\* the community payload with the grade of the entry the case was opened
\* for, not the fixed one
build_community_claim_payload_orig(stream_entry) ==
    [impact_score |-> stream_entry.impact_score,
     token_reward |-> RewardCurve(stream_entry.impact_score),
     impactScoreScaled |-> stream_entry.impact_score,
     tokenRewardWei |-> RewardCurve(stream_entry.impact_score)]

\* _build_community_claim_payload: the grade of payload_dict and
\* contract_args
build_community_claim_payload(stream_entry) ==
    [impact_score |-> COMMUNITY_CLAIM_IMPACT_SCORE,
     token_reward |-> COMMUNITY_CLAIM_TOKEN_REWARD,
     impactScoreScaled |-> COMMUNITY_CLAIM_IMPACT_SCORE,
     tokenRewardWei |-> COMMUNITY_CLAIM_TOKEN_REWARD]

\* _build_community_claim_payload: what is signed and what the claimant
\* hands to the verifier; nonce: the number of the signature drawn for the event
community_signed(stream_entry, nonce) ==
    LET grade == build_community_claim_payload(stream_entry)
    IN  [args |-> [eventId            |-> stream_entry.event_id,
                   volunteerAddress   |-> stream_entry.volunteer_address,
                   beneficiaryAddress |-> stream_entry.volunteer_address,
                   impactScoreScaled  |-> grade.impactScoreScaled,
                   tokenRewardWei     |-> grade.tokenRewardWei,
                   nonce              |-> nonce],
         signature |-> sign_payload_hash(
                           build_signing_hash(
                               stream_entry.event_id, stream_entry.volunteer_address,
                               stream_entry.volunteer_address, grade.impactScoreScaled,
                               grade.tokenRewardWei, nonce))]

with_vote(votes, voter, vote) ==
    [v \in DOMAIN votes \cup {voter} |-> IF v = voter THEN vote ELSE votes[v]]

count(votes, vote) == Cardinality({v \in DOMAIN votes : votes[v] = vote})

\* outcome once len(votes) >= VOTE_QUORUM
decide(votes) ==
    IF Cardinality(DOMAIN votes) >= VOTE_QUORUM
    THEN (IF count(votes, "approve") > count(votes, "reject") THEN "approved" ELSE "rejected")
    ELSE None

\* cast_vote up to the reputation lookup: the case is read from the store,
\* the vote word and the recorded outcome are checked
CastVoteBegin(s, event_id, voter_address, vote) ==
    LET vd   == vote_store[event_id]
        code == IF ~vd.exists THEN "404"
                ELSE IF vote \notin {"approve", "reject"} THEN "422"
                ELSE IF vd.outcome # None THEN "409_concluded"
                ELSE "ok"
    IN  /\ nVote < MaxVote
        /\ FreeSlot(creq, s)
        /\ nVote' = nVote + 1
        /\ IF code # "ok"
           THEN /\ vresp' = [NoVoteResp EXCEPT !.code = code]
                /\ UNCHANGED creq
           ELSE /\ creq' = [creq EXCEPT ![s] =
                              [pc |-> "lookup", event_id |-> event_id,
                               voter_address |-> voter_address, vote |-> vote, vd |-> vd]]
                /\ UNCHANGED vresp
        /\ UNCHANGED <<now, redis, nextEvent, opened_by, vreq, nVerify, resp,
                       verify_side, cresp, signed, param_result, evaluated, validation, calculation>>

\* cast_vote after the reputation lookup: phase check, own-case and
\* already-voted checks, the vote, the outcome and its side effects, and the
\* write of the case back to the store
CastVoteFinish(s, body_reputation, ledger, sign_ok) ==
    LET c      == creq[s]
        vd     == c.vd
        rep    == effective_reputation(body_reputation, ledger)
        age    == now - vd.opened_at
        phase  == phase_check(vd.needs_champion_audit, age, rep)
        voter  == voter_key(c.voter_address)
        owner  == find_submitter(stream, c.event_id)
        stream_entry == find_entry(stream, c.event_id)
        code   == IF phase # "ok" THEN phase
                  ELSE IF owner # None /\ voter = Lower(owner) THEN "403_own"
                  ELSE IF voter \in DOMAIN vd.votes THEN "409_voted"
                  ELSE "ok"
        votes  == with_vote(vd.votes, voter, c.vote)
        outcome == decide(votes)
        vol    == Lower(owner)
        approved == outcome = "approved" /\ ~vd.claim_payload /\ owner # None
        rejected == outcome = "rejected" /\ owner # None
        streak == reject_streak[vol] + 1
        built  == approved /\ sign_ok
    IN  /\ c.pc = "lookup"
        /\ creq' = [creq EXCEPT ![s] = IdleVote]
        /\ vresp' = [code |-> code, reputation_score |-> rep,
                     verified |-> ledger # Unavailable,
                     age_sec |-> age, audit |-> vd.needs_champion_audit,
                     signing_failed |-> code = "ok" /\ approved /\ ~sign_ok]
        /\ IF code # "ok"
           THEN UNCHANGED <<redis, signed>>
           ELSE /\ vote_store' = [vote_store EXCEPT ![c.event_id] =
                                    [vd EXCEPT !.votes = votes, !.outcome = outcome,
                                               !.claim_payload = @ \/ built,
                                               !.claim_contract_args =
                                                   IF built
                                                   THEN build_community_claim_payload(
                                                            stream_entry)
                                                   ELSE @,
                                               !.claim_signed =
                                                   IF built
                                                   THEN community_signed(
                                                            stream_entry,
                                                            signed[c.event_id] + 1)
                                                   ELSE @]]
                /\ signed' = IF built THEN [signed EXCEPT ![c.event_id] = @ + 1]
                                      ELSE signed
                /\ reject_streak' =
                       IF approved THEN [reject_streak EXCEPT ![vol] = 0]
                       ELSE IF rejected THEN [reject_streak EXCEPT ![vol] = streak]
                       ELSE reject_streak
                /\ param_manip_streak' =
                       IF approved THEN [param_manip_streak EXCEPT ![vol] = 0]
                                   ELSE param_manip_streak
                /\ banned' = IF rejected /\ streak >= 3 THEN banned \cup {vol} ELSE banned
                /\ expire_at' =
                       IF approved \/ rejected
                       THEN [param  |-> [expire_at.param EXCEPT ![vol] =
                                           next_expiry(param_manip_streak[vol],
                                                       param_manip_streak'[vol], @, now)],
                             reject |-> [expire_at.reject EXCEPT ![vol] =
                                           next_expiry(reject_streak[vol],
                                                       reject_streak'[vol], @, now)]]
                       ELSE expire_at
                /\ UNCHANGED <<sha256, rate, stream>>
        /\ UNCHANGED <<now, nextEvent, opened_by, vreq, nVerify, nVote, resp,
                       verify_side, cresp, param_result, evaluated, validation, calculation>>

(***************************************************************************)
(* GET /api/v1/vote/claim/{event_id}                                       *)
(***************************************************************************)
\* get_claim: the stored payload of an approved case; a case approved
\* without a payload gets one built from its feed entry and stored
GetClaim(event_id, sign_ok) ==
    LET vd           == vote_store[event_id]
        stream_entry == find_entry(stream, event_id)
        code == IF ~vd.exists THEN "404"
                ELSE IF vd.outcome # "approved" THEN "409"
                ELSE IF vd.claim_payload THEN "200"
                ELSE IF stream_entry = NoEntry \/ ~sign_ok THEN "503"
                ELSE "200"
        build == code = "200" /\ ~vd.claim_payload
        needs_signature == /\ vd.exists /\ vd.outcome = "approved" /\ ~vd.claim_payload
                           /\ stream_entry # NoEntry
        args  == IF build THEN build_community_claim_payload(stream_entry)
                          ELSE vd.claim_contract_args
        payload == IF build THEN community_signed(stream_entry, signed[event_id] + 1)
                            ELSE vd.claim_signed
    IN  /\ vote_store' = IF build
                         THEN [vote_store EXCEPT ![event_id] =
                                  [vd EXCEPT !.claim_payload = TRUE,
                                             !.claim_contract_args = args,
                                             !.claim_signed = payload]]
                         ELSE vote_store
        /\ signed' = IF build THEN [signed EXCEPT ![event_id] = @ + 1] ELSE signed
        /\ cresp' = IF code = "200"
                    THEN [code |-> code, event_id |-> event_id, contract_args |-> args,
                          signing_failed |-> FALSE, signed |-> payload]
                    ELSE [NoClaimResp EXCEPT !.code = code,
                                             !.signing_failed = needs_signature /\ ~sign_ok]
        /\ UNCHANGED <<now, banned, sha256, rate, param_manip_streak, reject_streak,
                       stream, nextEvent, opened_by, vreq, creq, nVerify, nVote, resp,
                       vresp, verify_side, param_result, evaluated, validation, calculation,
                       expire_at>>

(***************************************************************************)
(* The verify flow alone: two handlers, every request of the model.        *)
(***************************************************************************)
NextVerify ==
    \/ \E s \in Slots, v \in Volunteers, h \in Hashes, i \in Images \cup {None} :
           VerifyBegin(s, v, h, i)
    \/ \E s \in Slots, c \in Claims, x \in ExtFindings, stale \in BOOLEAN :
           VerifyFinish(s, c, x, stale)

SpecVerify == Init /\ [][NextVerify]_vars

(***************************************************************************)
(* The vote flow: review cases are opened by text-only submissions of low  *)
(* impact handled one at a time, cast_vote runs in two handlers, and every *)
(* voter is a champion by the ledger.                                      *)
(***************************************************************************)
WeakClaim    == [action_type |-> "ENVIRONMENTAL_ACTION", urgency_level |-> "LOW",
                 effort_hours |-> 1, people_helped |-> 2]
CleanFinding == [penalty |-> 0, hard_blocked |-> FALSE, llm_verdict |-> "consistent"]
Champion     == CHAMPION_REPUTATION_THRESHOLD * 100

NextVote ==
    \/ VerifyBegin(1, "0xA1", ZERO_HASH, None)
    \/ VerifyFinish(1, WeakClaim, CleanFinding, FALSE)
    \/ \E s \in Slots, a \in Voters, v \in Votes : CastVoteBegin(s, 1, a, v)
    \/ \E s \in Slots : CastVoteFinish(s, Champion, Champion, TRUE)

SpecVote == Init /\ [][NextVote]_vars

(***************************************************************************)
(* The phase check: time passes, submissions handled one at a time open    *)
(* ordinary and champion-audit cases, and the voter comes with every       *)
(* reputation the body and the ledger can report.  Submissions arrive      *)
(* until case 1, the case of the votes, is open.                           *)
(***************************************************************************)
CriticalClaim == [action_type |-> "DISASTER_RELIEF", urgency_level |-> "CRITICAL",
                  effort_hours |-> 72, people_helped |-> 100]

NextPhase ==
    \/ Tick
    \/ /\ ~vote_store[1].exists
       /\ \E i \in {None, "img_blurry"} : VerifyBegin(1, "0xA1", ZERO_HASH, i)
    \/ \E c \in {WeakClaim, CriticalClaim} : VerifyFinish(1, c, CleanFinding, FALSE)
    \/ \E s \in Slots : CastVoteBegin(s, 1, "0xb2", "approve")
    \/ \E s \in Slots, b \in RepInputs, l \in LedgerAnswers : CastVoteFinish(s, b, l, TRUE)

SpecPhase == Init /\ [][NextPhase]_vars

(***************************************************************************)
(* The claim flow: one submitter, cases of different original grades,      *)
(* three champions who vote one after the other, a signer that may fail    *)
(* in every request that needs it,                                         *)
(* and get_claim.  Submissions arrive until a case is open.                *)
(***************************************************************************)
Reviewers == {"0xb2", "0xc3", "0xd4"}
SuspectFinding == [penalty |-> 30, hard_blocked |-> FALSE, llm_verdict |-> "suspicious"]

NextClaim ==
    \/ /\ \A e \in EventIds : ~vote_store[e].exists
       /\ VerifyBegin(1, "0xA1", ZERO_HASH, None)
    \/ \E c \in {WeakClaim, CriticalClaim}, x \in {CleanFinding, SuspectFinding},
          ok \in BOOLEAN :
           VerifyFinishSigner(1, c, x, FALSE, ok)
    \/ \E e \in EventIds, a \in Reviewers : CastVoteBegin(1, e, a, "approve")
    \/ \E ok \in BOOLEAN : CastVoteFinish(1, Champion, Champion, ok)
    \/ \E e \in EventIds, ok \in BOOLEAN : GetClaim(e, ok)

SpecClaim == Init /\ [][NextClaim]_vars

(***************************************************************************)
(* The fraud checks: the stores as five attested submissions of 0xb2 at    *)
(* time 0 leave them (one of them with the image img_clean, the others     *)
(* text-only, all with the all-zero hash and none flagged for review),     *)
(* then verify requests of both addresses, one at a time, while the rate   *)
(* window and the fingerprint window pass.                                 *)
(***************************************************************************)
StrongClaim == [action_type |-> "FOOD_DISTRIBUTION", urgency_level |-> "HIGH",
                effort_hours |-> 8, people_helped |-> 16]

\* the feed entry of the newest of the five submissions; its event id is
\* none of the event ids drawn later
PriorEntry ==
    LET ev == evaluate_internal("FOOD_DISTRIBUTION", "HIGH", 8, 16, FALSE, 0, 0)
    IN  [event_id |-> 0, volunteer_address |-> "0xb2",
         impact_score |-> ev.impact_score, token_reward |-> ev.token_reward_wei]

PriorFingerprint == [h |-> dhash("img_clean"), v |-> "0xb2", t |-> 0]

InitFraud ==
    /\ now = 0
    /\ banned = {}
    /\ sha256 = [h \in LowHashes |-> None]
    /\ rate = [a \in LowAddrs |-> IF a = "0xb2" THEN <<0, 0, 0, 0, 0>> ELSE <<>>]
    /\ param_manip_streak = [a \in LowAddrs |-> 0]
    /\ reject_streak = [a \in LowAddrs |-> 0]
    /\ stream = push_stream(<<>>, PriorEntry)
    /\ vote_store = [e \in EventIds |-> NoCase]
    /\ nextEvent = 0
    /\ opened_by = [e \in EventIds |-> None]
    /\ vreq = [s \in Slots |-> IdleVerify]
    /\ creq = [s \in Slots |-> IdleVote]
    /\ nVerify = 0
    /\ nVote = 0
    /\ resp = NoResp
    /\ vresp = NoVoteResp
    /\ phash = push_phash(<<>>, PriorFingerprint)
    /\ fraud = NoFraud
    /\ cresp = NoClaimResp
    /\ signed = [e \in EventIds |-> 0]
    /\ issued = [a \in LowAddrs |-> IF a = "0xb2" THEN <<0, 0, 0, 0, 0>> ELSE <<>>]
    /\ recorded = {PriorFingerprint}
    /\ param_result = NoParamResult
    /\ evaluated = NoEvaluated
    /\ validation = NoValidation
    /\ calculation = NoCalculation
    /\ expire_at = NoExpiry

\* the second after the rate window, the end of the fingerprint window
\* and the second after it
FraudTimes == {RATE_WINDOW_SEC + 1, PHASH_WINDOW_SEC, PHASH_WINDOW_SEC + 1}

NextFraud ==
    \/ Advance(FraudTimes)
    \/ \E v \in {"0xA1", "0xB2"}, h \in {ZERO_HASH, "h1"},
          i \in {None, "img_clean", "img_forged", "img_blurry"} :
           VerifyBegin(1, v, h, i)
    \/ VerifyFinish(1, StrongClaim, CleanFinding, FALSE)

SpecFraud == InitFraud /\ [][NextFraud]_vars

(***************************************************************************)
(* The penalties: one submitter, one request at a time, every image, every *)
(* claim and every finding of the later validator layers.                  *)
(***************************************************************************)
\* a description under 20 characters (0.25), no person in the image of an
\* action with people (0.20) and a vision-language verdict "suspicious"
\* with confidence 100 (0.10 + 0.30)
HeavyFinding == [penalty |-> 25 + 20 + 40, hard_blocked |-> FALSE,
                 llm_verdict |-> "suspicious"]

NextPenalty ==
    \/ \E i \in Images \cup {None} : VerifyBegin(1, "0xA1", ZERO_HASH, i)
    \/ \E c \in Claims, x \in ExtFindings \cup {HeavyFinding}, stale \in BOOLEAN :
           VerifyFinish(1, c, x, stale)

SpecPenalty == Init /\ [][NextPenalty]_vars

(***************************************************************************)
(* ParameterValidator.validate on whole requests: descriptions, detector   *)
(* outputs and answers of the vision-language model.  The first three      *)
(* requests are the ones of the validator's standalone tests.              *)
(***************************************************************************)
ScenarioB ==
    [action_type |-> "DISASTER_RELIEF", urgency_level |-> "CRITICAL",
     effort_hours |-> 1, people_helped |-> 5000,
     \* "Saya membantu seorang nenek menyebrang jalan di dekat rumah saya."
     description |-> [chars |-> 65, blank |-> FALSE, terms |-> {"rumah"}],
     detection |-> [person_count_yolo |-> 2, detected_objects |-> {"person"}]]

ValidateRequests ==
    { ScenarioB,
      [action_type |-> "FOOD_DISTRIBUTION", urgency_level |-> "HIGH",
       effort_hours |-> 8, people_helped |-> 150,
       description |-> [chars |-> 105, blank |-> FALSE,
                        terms |-> {"banjir", "distribusi", "nasi", "paket", "pengungsi"}],
       detection |-> [person_count_yolo |-> 12,
                      detected_objects |-> {"person", "bowl", "cup"}]],
      [action_type |-> "EDUCATION_SESSION", urgency_level |-> "CRITICAL",
       effort_hours |-> 72, people_helped |-> 5000,
       description |-> [chars |-> 27, blank |-> FALSE, terms |-> {"mengajar"}],
       detection |-> [person_count_yolo |-> 3, detected_objects |-> {"person"}]],
      [action_type |-> "DISASTER_RELIEF", urgency_level |-> "HIGH",
       effort_hours |-> 4, people_helped |-> 60,
       description |-> [chars |-> 59, blank |-> FALSE,
                        terms |-> {"banjir", "pantai", "pungut sampah", "sampah"}],
       detection |-> [person_count_yolo |-> 0, detected_objects |-> {"couch"}]],
      [action_type |-> "MEDICAL_AID", urgency_level |-> "HIGH",
       effort_hours |-> 2, people_helped |-> 10,
       description |-> [chars |-> 10, blank |-> FALSE, terms |-> {"obat"}],
       detection |-> [person_count_yolo |-> -1, detected_objects |-> {}]],
      [action_type |-> "FOOD_DISTRIBUTION", urgency_level |-> "CRITICAL",
       effort_hours |-> 4, people_helped |-> 100,
       description |-> [chars |-> 0, blank |-> TRUE, terms |-> {}],
       detection |-> [person_count_yolo |-> -1, detected_objects |-> {}]],
      [action_type |-> "FOOD_DISTRIBUTION", urgency_level |-> "MEDIUM",
       effort_hours |-> 8, people_helped |-> 80,
       description |-> [chars |-> 40, blank |-> FALSE, terms |-> {"nasi"}],
       detection |-> [person_count_yolo |-> 2, detected_objects |-> {"person", "car"}]],
      [action_type |-> "ANIMAL_RESCUE", urgency_level |-> "HIGH",
       effort_hours |-> 2, people_helped |-> 3,
       description |-> [chars |-> 40, blank |-> FALSE, terms |-> {"rescue"}],
       detection |-> [person_count_yolo |-> 1, detected_objects |-> {"person"}]] }

\* the model is down, slow, answers with an error status or with no JSON object
FailedTransports == {"connection_error", "timeout", "http_error", "not_json"}

LlmAnswers ==
    { [NoAnswer EXCEPT !.transport = t] : t \in FailedTransports }
    \cup
    { [transport |-> "ok", verdict |-> v, confidence |-> c, numeric |-> n,
       issues_ok |-> i, estimate |-> e] :
         v \in {"consistent", "suspicious", "fabricated"}, c \in {50, 60, 70, 100},
         n \in BOOLEAN, i \in BOOLEAN, e \in {"none", "number", "text"} }

\* validator.validate(...) on one request, the model answering `answer`
Validate(q, answer) ==
    /\ validation' = [called |-> TRUE, request |-> q, answer |-> answer,
                      result |-> validate_request(q, answer)]
    /\ UNCHANGED <<now, redis, nextEvent, opened_by, vreq, creq, nVerify, nVote, resp,
                   vresp, verify_side, cresp, signed, param_result, evaluated,
                   calculation>>

NextValidate == \E q \in ValidateRequests, answer \in LlmAnswers : Validate(q, answer)

SpecValidate == Init /\ [][NextValidate]_vars

(***************************************************************************)
(* ImpactScoreCalculator.calculate on valid metadata: every category and   *)
(* urgency, effort from 0 to 200 h around the cap of 72 h, poverty index   *)
(* and confidence inside and outside [0, 1].                               *)
(***************************************************************************)
\* effort in half hours: 0, 1 h, 20 h, 71.5 h, 72 h, 72.5 h, 200 h
CalcEfforts2    == {0, 2, 40, 143, 144, 145, 400}
\* hundredths
CalcPoverty     == {0, 70, 100, 120}
CalcConfidences == {0, 30, 100, 120}
CalcActions     == {"DISASTER_RELIEF", "ENVIRONMENTAL_ACTION"}

\* calculator.calculate(metadata, ai_confidence)
Calculate(action, urgency, effort2, poverty, conf) ==
    /\ calculation' = [called |-> TRUE, action_type |-> action, urgency_level |-> urgency,
                       effort2 |-> effort2, poverty_index |-> poverty,
                       ai_confidence |-> conf,
                       score |-> calculate(action, urgency, effort2, poverty, conf)]
    /\ UNCHANGED <<now, redis, nextEvent, opened_by, vreq, creq, nVerify, nVote, resp,
                   vresp, verify_side, cresp, signed, param_result, evaluated,
                   validation>>

NextCalculate ==
    \E action \in CalcActions, urgency \in UrgencyLevels, effort2 \in CalcEfforts2,
       poverty \in CalcPoverty, conf \in CalcConfidences :
        Calculate(action, urgency, effort2, poverty, conf)

SpecCalculate == Init /\ [][NextCalculate]_vars

(***************************************************************************)
(* The manipulation streak: one submitter whose streak key was written at  *)
(* time 0, one request at a time, every finding of the validator, the      *)
(* reviewers' approvals of the first case while it is open, and the        *)
(* seconds around the expiry of the key, passing between requests.         *)
(***************************************************************************)
\* the streaks the submitter starts with
PriorStreaks == {0, PARAM_MANIP_STREAK_BAN - 1}

InitStreak ==
    /\ now = 0
    /\ banned = {}
    /\ sha256 = [h \in LowHashes |-> None]
    /\ rate = [a \in LowAddrs |-> <<>>]
    /\ \E n \in PriorStreaks :
          /\ param_manip_streak = [a \in LowAddrs |-> IF a = "0xa1" THEN n ELSE 0]
          /\ expire_at = [NoExpiry EXCEPT !.param["0xa1"] =
                              next_expiry(0, n, 0, 0)]
    /\ reject_streak = [a \in LowAddrs |-> 0]
    /\ stream = <<>>
    /\ vote_store = [e \in EventIds |-> NoCase]
    /\ nextEvent = 0
    /\ opened_by = [e \in EventIds |-> None]
    /\ vreq = [s \in Slots |-> IdleVerify]
    /\ creq = [s \in Slots |-> IdleVote]
    /\ nVerify = 0
    /\ nVote = 0
    /\ resp = NoResp
    /\ vresp = NoVoteResp
    /\ phash = <<>>
    /\ fraud = NoFraud
    /\ cresp = NoClaimResp
    /\ signed = [e \in EventIds |-> 0]
    /\ issued = [a \in LowAddrs |-> <<>>]
    /\ recorded = {}
    /\ param_result = NoParamResult
    /\ evaluated = NoEvaluated
    /\ validation = NoValidation
    /\ calculation = NoCalculation

\* the last second of the streak key written at time 0 and the second it
\* is gone
StreakTimes == {STREAK_TTL_SEC - 1, STREAK_TTL_SEC}

\* a description without any keyword of the action (0.15)
MildFinding == [penalty |-> 15, hard_blocked |-> FALSE, llm_verdict |-> "consistent"]

\* the requests: attested with a clean finding, a mild one and one above
\* 0.20, sent to review with one above 0.20, and blocked by the validator
StreakRequests ==
    {<<CriticalClaim, CleanFinding>>, <<CriticalClaim, MildFinding>>,
     <<CriticalClaim, SuspectFinding>>, <<WeakClaim, SuspectFinding>>,
     <<WeakClaim, [penalty |-> 0, hard_blocked |-> TRUE, llm_verdict |-> "fabricated"]>>}

NextStreak ==
    \/ /\ vreq[1].pc = "idle" /\ creq[1].pc = "idle"
       /\ Advance(StreakTimes)
    \/ VerifyBegin(1, "0xA1", ZERO_HASH, None)
    \/ \E q \in StreakRequests : VerifyFinish(1, q[1], q[2], FALSE)
    \/ /\ vote_store[1].exists /\ vote_store[1].outcome = None
       /\ \E a \in Reviewers : CastVoteBegin(1, 1, a, "approve")
    \/ CastVoteFinish(1, Champion, Champion, TRUE)

SpecStreak == InitStreak /\ [][NextStreak]_vars

(***************************************************************************)
(* The attestations: one submitter, requests that name no beneficiary, the *)
(* zero address, themselves or another address, three champions, and       *)
(* get_claim.  Submissions arrive until a case is open.                    *)
(***************************************************************************)
Beneficiaries == {"", ZERO_ADDRESS, "0xA1", SomeBeneficiary}

NextAttest ==
    \/ /\ \A e \in EventIds : ~vote_store[e].exists
       /\ VerifyBegin(1, "0xA1", ZERO_HASH, None)
    \/ \E c \in {WeakClaim, CriticalClaim}, x \in {CleanFinding, SuspectFinding},
          b \in Beneficiaries :
           VerifyFinishFor(1, c, x, FALSE, TRUE, b)
    \/ \E e \in EventIds, a \in Reviewers : CastVoteBegin(1, e, a, "approve")
    \/ CastVoteFinish(1, Champion, Champion, TRUE)
    \/ \E e \in EventIds : GetClaim(e, TRUE)

SpecAttest == Init /\ [][NextAttest]_vars

(***************************************************************************)
(* The feed and the claim: one submitter whose first submission goes to    *)
(* review while further submissions arrive, three champions who approve    *)
(* the first case while it is open, a signer that works, and get_claim.    *)
(***************************************************************************)
NextFeed ==
    \/ VerifyBegin(1, "0xA1", ZERO_HASH, None)
    \/ \E c \in {WeakClaim, CriticalClaim}, x \in {CleanFinding, SuspectFinding} :
           VerifyFinish(1, c, x, FALSE)
    \/ /\ vote_store[1].exists /\ vote_store[1].outcome = None
       /\ \E a \in Reviewers : CastVoteBegin(1, 1, a, "approve")
    \/ CastVoteFinish(1, Champion, Champion, TRUE)
    \/ \E e \in EventIds : GetClaim(e, TRUE)

SpecFeed == Init /\ [][NextFeed]_vars

(***************************************************************************)
(* The full service: every request of the model in every handler.          *)
(***************************************************************************)
Next ==
    \/ Tick
    \/ \E s \in Slots, v \in Volunteers, h \in Hashes, i \in Images \cup {None} :
           VerifyBegin(s, v, h, i)
    \/ \E s \in Slots, c \in Claims, x \in ExtFindings, stale \in BOOLEAN :
           VerifyFinish(s, c, x, stale)
    \/ \E s \in Slots, e \in EventIds, a \in Voters, v \in Votes : CastVoteBegin(s, e, a, v)
    \/ \E s \in Slots, b \in RepInputs, l \in LedgerAnswers, ok \in BOOLEAN :
           CastVoteFinish(s, b, l, ok)
    \/ \E e \in EventIds, ok \in BOOLEAN : GetClaim(e, ok)

Spec == Init /\ [][Next]_vars

(***************************************************************************)
(* Properties of the verify flow.                                          *)
(***************************************************************************)
\* a verify request that ended with a result for the submission
Processed == resp.kind \in {"attested", "review"}

\* C1: of two verify requests in flight with the same non-zero content
\* hash, at most one is past the exact-duplicate check.
C1_OnePassesDuplicateCheck ==
    \A s, t \in Slots :
        (/\ s # t
         /\ vreq[s].pc = "validating"
         /\ vreq[t].pc = "validating"
         /\ dedup_applies(vreq[s].hash_sha256))
        => Lower(vreq[s].hash_sha256) # Lower(vreq[t].hash_sha256)

\* C2: the reward of a processed submission is at most 100 tokens, and with
\* an accumulated penalty of 0.60 or more it is 0, in the response and in
\* the signed tokenRewardWei, and a review case is opened.
C2_RewardGate ==
    Processed =>
        /\ resp.token_reward <= 100 * 1000
        /\ resp.token_reward_wei <= 100 * 1000
        /\ resp.penalty >= 60 =>
               /\ resp.token_reward = 0
               /\ resp.token_reward_wei = 0
               /\ resp.review_case
               /\ vote_store[resp.event_id].exists

\* C3: the reward bound into the signature of an attestation is
\* min(100, 5 + (p/100)^1.5 * 45) with p the raw score reduced by the
\* accumulated penalty.
C3_RewardFromPenalizedScore ==
    resp.kind = "attested" =>
        resp.token_reward_wei = RewardCurve(Penalized(resp.raw_score, resp.penalty))

\* C4: a submission whose penalized score is below 30.0 gets no signature:
\* token_reward 0, contract_args null, and a review case with an empty vote
\* map and no outcome.
C4_FloorOnPenalizedScore ==
    (Processed /\ Penalized(resp.raw_score, resp.penalty) < 30 * 100) =>
        /\ resp.kind = "review"
        /\ resp.token_reward = 0
        /\ ~resp.contract_args
        /\ resp.review_case
        /\ vote_store[resp.event_id].exists

(***************************************************************************)
(* Properties of the vote flow.                                            *)
(***************************************************************************)
\* the step is the end of the cast_vote request of handler s
CastVoteEnds(s) == creq[s].pc = "lookup" /\ creq'[s].pc = "idle"

\* the step is the end of an accepted cast_vote request of handler s
CastVoteAccepted(s) == CastVoteEnds(s) /\ vresp'.code = "ok"

Approvals(votes)  == Cardinality({k \in DOMAIN votes : votes[k] = "approve"})
Rejections(votes) == Cardinality({k \in DOMAIN votes : votes[k] = "reject"})

\* C5: the outcome of a case is null below 3 recorded votes, is decided by
\* the vote that brings the count to 3 (approved on a strict majority of
\* approvals, rejected otherwise), and from then on neither the outcome nor
\* the vote map of the case changes.
C5_QuorumOutcomeImmutable ==
    [][\A e \in EventIds :
          LET before == vote_store[e]
              after  == vote_store'[e]
              n      == Cardinality(DOMAIN after.votes)
          IN  /\ n < 3 => after.outcome = None
              /\ (before.outcome = None /\ n >= 3) =>
                     after.outcome = IF Approvals(after.votes) > Rejections(after.votes)
                                     THEN "approved" ELSE "rejected"
              /\ before.outcome # None => after = before]_vars

\* C6: an accepted vote of a voter who is not yet in the stored vote map
\* is added to the stored map (no recorded vote is dropped by the write),
\* and the write never lands on a case whose outcome is already decided.
C6_AtomicReadModifyWrite ==
    [][\A s \in Slots :
          LET e      == creq[s].event_id
              voter  == Lower(creq[s].voter_address)
              stored == vote_store[e].votes
          IN  (CastVoteAccepted(s) /\ voter \notin DOMAIN stored) =>
                  /\ vote_store[e].outcome = None
                  /\ \A k \in DOMAIN stored :
                         /\ k \in DOMAIN vote_store'[e].votes
                         /\ vote_store'[e].votes[k] = stored[k]
                  /\ voter \in DOMAIN vote_store'[e].votes]_vars

\* C7: the submitter of a case is never in the vote map of the case.
C7_SubmitterNeverVotes ==
    \A e \in EventIds :
        opened_by[e] # None => Lower(opened_by[e]) \notin DOMAIN vote_store[e].votes

\* C8: a cast_vote by an address that is already in the stored vote map of
\* the case, in any spelling, is refused and leaves the recorded vote as it
\* is; the keys of a vote map differ in more than their case.
C8_OneVotePerVoter ==
    [][/\ \A s \in Slots :
             LET e     == creq[s].event_id
                 voter == Lower(creq[s].voter_address)
             IN  (CastVoteEnds(s) /\ voter \in DOMAIN vote_store[e].votes) =>
                     /\ vresp'.code # "ok"
                     /\ voter \in DOMAIN vote_store'[e].votes
                     /\ vote_store'[e].votes[voter] = vote_store[e].votes[voter]
       /\ \A e \in EventIds : \A j, k \in DOMAIN vote_store'[e].votes :
             Lower(j) = Lower(k) => j = k]_vars

\* a cast_vote request that got as far as the phase check
Phased == vresp.code \in {"ok", "403_phase", "403_audit", "403_own", "409_voted"}
PhaseRefused == vresp.code \in {"403_phase", "403_audit"}

\* C9: in an ordinary case a voter with reputation below 500 is refused
\* while the case is younger than 600 s and passes the phase check from
\* 600 s on; in a champion-audit case such a voter is refused at every
\* time; a voter with reputation 500 or more always passes the phase check.
C9_PhaseCheck ==
    Phased =>
        /\ (~vresp.audit /\ vresp.reputation_score < 500 * 100 /\ vresp.age_sec < 600)
               => vresp.code = "403_phase"
        /\ (~vresp.audit /\ vresp.reputation_score < 500 * 100 /\ vresp.age_sec >= 600)
               => ~PhaseRefused
        /\ (vresp.audit /\ vresp.reputation_score < 500 * 100) => vresp.code = "403_audit"
        /\ vresp.reputation_score >= 500 * 100 => ~PhaseRefused

\* C9, witness: a voter below 500 passed the phase check of an ordinary
\* case that was 600 s old.
C9_LowReputationPassesInPhase2 ==
    /\ vresp.code = "ok"
    /\ ~vresp.audit
    /\ vresp.reputation_score < 500 * 100
    /\ vresp.age_sec >= 600

\* C10: a reputation that comes from the request only does not pass the
\* phase check of a case in phase 1 or of a champion-audit case.
C10_FallbackLessTrusted ==
    (Phased /\ ~vresp.verified /\ (vresp.audit \/ vresp.age_sec < 600)) => PhaseRefused

(***************************************************************************)
(* Properties of the claim flow.                                           *)
(***************************************************************************)
\* the grade of a community payload
CommunityGrade ==
    [impact_score |-> 30 * 100, token_reward |-> 12394,
     impactScoreScaled |-> 3000, tokenRewardWei |-> 12394]

\* C11: the payload stored for a community-approved case, and the one
\* get_claim hands out, carries impact_score 30.0, impactScoreScaled 3000
\* and the reward round(5 + 0.30^1.5 * 45, 4), whatever the grade of the
\* feed entry the case was opened for.
C11_FixedMinimumGrade ==
    /\ \A e \in EventIds :
           vote_store[e].claim_payload => vote_store[e].claim_contract_args = CommunityGrade
    /\ cresp.code = "200" => cresp.contract_args = CommunityGrade

\* C11, witness: get_claim handed out the payload of an approved case whose
\* feed entry carries a grade above the fixed one.
C11_ApprovedAboveMinimum ==
    /\ cresp.code = "200"
    /\ vote_store[cresp.event_id].outcome = "approved"
    /\ find_entry(stream, cresp.event_id).impact_score > COMMUNITY_CLAIM_IMPACT_SCORE

\* the step decides case e with this outcome
Becomes(e, outcome) == vote_store[e].outcome = None /\ vote_store'[e].outcome = outcome

\* C12: a step that decides a case as rejected adds exactly 1 to the
\* rejection streak of its submitter, and the streak rises in no other
\* step; a step that decides a case as approved clears the submitter's
\* rejection and parameter-manipulation streaks; an address whose rejection
\* streak is 3 or more is banned, and no verify request of a banned address
\* gets past the ban check.
C12_StreaksAndBan ==
    [][/\ \A e \in EventIds :
             LET a == Lower(opened_by[e])
             IN  /\ Becomes(e, "rejected") => reject_streak'[a] = reject_streak[a] + 1
                 /\ Becomes(e, "approved") =>
                        reject_streak'[a] = 0 /\ param_manip_streak'[a] = 0
       /\ \A a \in LowAddrs :
             /\ reject_streak'[a] > reject_streak[a] =>
                    \E e \in EventIds : Becomes(e, "rejected") /\ Lower(opened_by[e]) = a
             /\ reject_streak'[a] >= 3 => a \in banned'
       /\ \A s \in Slots :
             (vreq[s].pc = "idle" /\ vreq'[s].pc = "validating") =>
                 Lower(vreq'[s].volunteer_address) \notin banned]_vars

\* C13: a processed submission has a signed attestation or a review case,
\* not both, and no event id gets more than one signed attestation, from
\* verify_impact, cast_vote and get_claim together.
C13_AttestationOrCase ==
    /\ Processed => ~(resp.contract_args /\ resp.review_case)
    /\ \A e \in EventIds : signed[e] <= 1

(***************************************************************************)
(* Properties of the fraud checks.                                         *)
(***************************************************************************)
\* the step is a call of check_all
CheckAllCalled == fraud'.call # fraud.call

\* the step is the end of the verify request of handler s
VerifyEnds(s) == vreq[s].pc = "validating" /\ vreq'[s].pc = "idle"

\* C14: a verify request with a non-zero hash that ends, with whatever
\* outcome, leaves the hash recorded; a recorded hash keeps its first
\* owner; a call of check_all that gets to the exact-duplicate check with
\* a recorded hash is blocked, with the self-duplicate reason for the owner
\* and the third-party reason for anyone else, in any spelling of hash and
\* address; a hash that is not recorded is never blocked as a duplicate.
C14_DuplicateBlocked ==
    [][/\ \A s \in Slots :
             (VerifyEnds(s) /\ dedup_applies(vreq[s].hash_sha256)) =>
                 sha256'[Lower(vreq[s].hash_sha256)] # None
       /\ \A h \in LowHashes : sha256[h] # None => sha256'[h] = sha256[h]
       /\ CheckAllCalled =>
             LET h     == fraud'.hash_sha256
                 first == sha256[Lower(h)]
                 dup   == fraud'.reason \in {"duplicate_self", "duplicate_other"}
             IN  IF dedup_applies(h) /\ first # None
                 THEN fraud'.reason # "rate_limited" =>
                          fraud'.reason = IF first = Lower(fraud'.volunteer_address)
                                          THEN "duplicate_self" ELSE "duplicate_other"
                 ELSE ~dup]_vars

\* submissions of address a that got past the rate-limit check in the
\* window that ends at t
IssuedInWindow(a, t) == Len(prune(issued[a], t))

\* C15: a call of check_all is refused by the rate limit exactly when the
\* address, in any spelling, has 5 submissions past the check within the
\* last 3600 s; no address has more than 5 past the check in one window;
\* and every verify request that ends, with whatever outcome, adds one
\* entry to the list of its address that the check counts.
C15_RateLimit ==
    [][/\ CheckAllCalled =>
             LET a == Lower(fraud'.volunteer_address)
             IN  fraud'.reason = "rate_limited" <=>
                     IssuedInWindow(a, now) >= MAX_SUBMITS_WINDOW
       /\ \A a \in LowAddrs : Len(prune(issued'[a], now')) <= MAX_SUBMITS_WINDOW
       /\ \A s \in Slots :
             VerifyEnds(s) =>
                 LET a == Lower(vreq[s].volunteer_address)
                 IN  Len(rate'[a]) = Len(rate[a]) + 1]_vars

\* the step is a call of check_all that got to check_image_phash
PhashChecked ==
    /\ CheckAllCalled
    /\ fraud'.image # None
    /\ fraud'.reason \notin {"rate_limited", "duplicate_self", "duplicate_other"}

\* fingerprint f, seen at time t, makes the image of address a a near-duplicate
Near(f, image, a, t) ==
    /\ f.t >= t - 7 * 24 * 3600
    /\ f.v # Lower(a)
    /\ hamming_distance(dhash(image), f.h) < 10

\* what check_image_phash does to the list when it passes or blocks
PhashRecords ==
    LET item == [h |-> dhash(fraud'.image), v |-> Lower(fraud'.volunteer_address),
                 t |-> now]
    IN  IF fraud'.ok THEN Len(phash') >= 1 /\ phash'[1] = item /\ item \in recorded'
                     ELSE phash' = phash /\ recorded' = recorded

FirstBlock ==
    LET a     == Lower(fraud'.volunteer_address)
        h     == fraud'.hash_sha256
        first == sha256[Lower(h)]
    IN  IF Len(prune(rate[a], now)) >= 5 THEN "rate_limited"
        ELSE IF dedup_applies(h) /\ first # None
        THEN (IF first = a THEN "duplicate_self" ELSE "duplicate_other")
        ELSE IF /\ fraud'.image # None
                /\ \E k \in 1..Len(phash) :
                       Near(phash[k], fraud'.image, fraud'.volunteer_address, now)
        THEN "near_duplicate"
        ELSE None

\* C17: check_all answers with the first hard block in the order rate
\* limit, exact duplicate, near-duplicate image; a blocked result has
\* ok = false, that check's reason, no warnings and penalty 0, the request
\* ends with that reason, and nothing is recorded by a later check (no
\* fingerprint, and no rate entry on a rate-limit block); a result that
\* passes carries the metadata warnings ahead of the forensics warnings.
C17_FirstHardBlock ==
    [][CheckAllCalled =>
          /\ fraud'.reason = FirstBlock
          /\ fraud'.ok <=> FirstBlock = None
          /\ ~fraud'.ok =>
                 /\ fraud'.warnings = <<>>
                 /\ fraud'.authenticity_penalty = 0
                 /\ resp'.kind = fraud'.reason
                 /\ vreq' = vreq
                 /\ phash' = phash /\ recorded' = recorded /\ sha256' = sha256
                 /\ fraud'.reason = "rate_limited" => rate' = rate
          /\ fraud'.ok =>
                 fraud'.warnings = check_exif_warnings(fraud'.image)
                                   \o check_ela_warnings(fraud'.image)]_vars

\* C17, witness: a request with an image and a recorded hash, from an
\* address over the limit, was blocked by the rate limit, and the list of
\* fingerprints holds nothing of that image.
C17_RateLimitBeforeDuplicate ==
    /\ fraud.reason = "rate_limited"
    /\ fraud.image # None
    /\ dedup_applies(fraud.hash_sha256)
    /\ sha256[Lower(fraud.hash_sha256)] # None
    /\ \A k \in 1..Len(phash) : phash[k].h # dhash(fraud.image)

(***************************************************************************)
(* Properties of the penalties.                                            *)
(***************************************************************************)
\* the sum of the amounts in result.penalties
Accumulated == LET q == param_result.penalties IN q[1] + q[2] + q[3] + q[4] + q[5]

\* C18: the penalty of check_exif is within [0, 0.50], the
\* authenticity_penalty of check_all within [0, 0.60], and total_penalty of
\* a ValidationResult within [0, 0.60] after every add_penalty.
C18_PenaltiesCapped ==
    /\ fraud.exif_penalty \in 0..50
    /\ fraud.authenticity_penalty \in 0..60
    /\ param_result.total_penalty \in 0..60
    /\ \A k \in 1..5 : param_result.totals[k] \in 0..60

\* C18, witness: the metadata penalties of the image add up to more than
\* 0.50, its soft penalties to more than 0.60, and the plausibility
\* penalties of the request to more than 0.60.
C18_EveryCapActive ==
    /\ fraud.image = "img_forged"
    /\ fraud.exif_penalty = 50
    /\ fraud.authenticity_penalty = 60
    /\ Accumulated > 60
    /\ param_result.total_penalty = 60

\* C19: a result of validate whose penalties add up to more than 0.80 is
\* a hard block.
C19_AccumulationHardBlocks ==
    Accumulated > 80 => param_result.hard_blocked

\* C20: for an image from the in-app camera the metadata check adds no
\* warning and no penalty, and the integrity penalty of the submission is
\* what the other soft checks give, reduced by 0.10 and not below 0.
C20_LiveCaptureReduction ==
    (fraud.ok /\ fraud.image # None /\ ImageFacts(fraud.image).source = "live_capture") =>
        /\ fraud.exif_penalty = 0
        /\ fraud.warnings = check_ela_warnings(fraud.image)
        /\ fraud.authenticity_penalty = Max(0, check_ela(fraud.image) - 10)

(***************************************************************************)
(* Properties of the clamped parameters.                                   *)
(***************************************************************************)
\* C21: validate returns adjusted_effort_hours = min(claimed effort, the
\* category's max_effort_hours) and adjusted_people_helped = min(claimed
\* people, the category's max_people_abs), and the effort (in half hours)
\* and the people count the score of the submission is computed from are
\* within those ceilings.
C21_ClampedParameters ==
    evaluated.called =>
        LET a == evaluated.action_type
        IN  /\ evaluated.adjusted_effort_hours =
                   Min(evaluated.effort_hours, max_effort_hours(a))
            /\ evaluated.adjusted_people_helped =
                   Min(evaluated.people_helped, max_people_abs(a))
            /\ evaluated.capped2 <= 2 * max_effort_hours(a)
            /\ evaluated.evidence_people_helped <= max_people_abs(a)

(***************************************************************************)
(* Properties of the hard blocks.                                          *)
(***************************************************************************)
\* the step leaves no attestation, no review case and no feed entry
NothingProduced ==
    /\ stream' = stream
    /\ vote_store' = vote_store
    /\ signed' = signed
    /\ nextEvent' = nextEvent

\* the step adds to an abuse counter of address a
AbuseRecorded(a) ==
    \/ param_manip_streak'[Lower(a)] > param_manip_streak[Lower(a)]
    \/ reject_streak'[Lower(a)] > reject_streak[Lower(a)]

\* C22: a verify request that check_all blocks (rate limit, duplicate
\* content, near-duplicate image) ends with the reason of that check, one
\* that the validator blocks (impossible parameters, fabricated verdict)
\* ends with the parameter-integrity reason; either leaves no attestation,
\* no review case and no feed entry, and adds to an abuse counter of the
\* submitter.
C22_HardBlockRecorded ==
    [][/\ (CheckAllCalled /\ ~fraud'.ok) =>
              /\ resp'.kind = fraud'.reason
              /\ resp'.kind \in {"rate_limited", "duplicate_self", "duplicate_other",
                                 "near_duplicate"}
              /\ NothingProduced
              /\ AbuseRecorded(fraud'.volunteer_address)
       /\ \A s \in Slots :
              (VerifyEnds(s) /\ param_result'.hard_blocked) =>
                  /\ resp'.kind = "param_block"
                  /\ NothingProduced
                  /\ AbuseRecorded(vreq[s].volunteer_address)]_vars

(***************************************************************************)
(* Properties of the signer's faults.                                      *)
(***************************************************************************)
\* C23: a request in which building or signing an attestation failed - a
\* verify request, the cast_vote that decides a case as approved, or a
\* get_claim - ends with an error and not with its normal answer.
C23_SigningFaultAborts ==
    /\ resp.signing_failed => resp.kind = "error"
    /\ vresp.signing_failed => vresp.code # "ok"
    /\ cresp.signing_failed => cresp.code = "503"

(***************************************************************************)
(* Properties of the validator's later layers.                             *)
(***************************************************************************)
\* the request with the vision-language layer skipped
skipping_llm(q) == [q EXCEPT !.description.blank = TRUE]

\* C24: a call of the vision-language model that fails at any point
\* (connection, timeout, error status, malformed answer) adds no penalty
\* and no hard block, and leaves the result of validate, llm_verdict
\* included, as it was before the call.
C24_FailedCallChangesNothing ==
    (validation.called /\ validation.result.llm_failed) =>
        LET before == validate_request(skipping_llm(validation.request), validation.answer)
            after  == validation.result
        IN  /\ after.hard_blocked = before.hard_blocked
            /\ after.total_penalty = before.total_penalty
            /\ after.warnings = before.warnings
            /\ after.llm_verdict = before.llm_verdict

\* the part of C24 that holds: a call that fails before the answer is
\* parsed changes nothing
C24_FailedTransportChangesNothing ==
    (validation.called /\ validation.answer.transport \in FailedTransports) =>
        validation.result =
            [validate_request(skipping_llm(validation.request), validation.answer)
                EXCEPT !.asked = validation.result.asked,
                       !.llm_failed = validation.result.llm_failed]

\* C25: scenario B (DISASTER_RELIEF, CRITICAL, 1 h, 5000 people, a
\* description without a disaster keyword, 2 detected persons) is hard
\* blocked by the effort/people ratio and the keyword mismatch is recorded,
\* whatever the vision-language model answers.
C25_ScenarioBBlocked ==
    (validation.called /\ validation.request = ScenarioB) =>
        /\ validation.result.hard_blocked
        /\ \E i \in DOMAIN validation.result.blocked_by :
               validation.result.blocked_by[i] = "ratio"
        /\ \E i \in DOMAIN validation.result.warnings :
               validation.result.warnings[i] = "description_keyword_mismatch"

\* scenario B validated while the model is unreachable
C25_ScenarioBModelDown ==
    /\ validation.called
    /\ validation.request = ScenarioB
    /\ validation.answer.transport = "connection_error"
    /\ validation.result.hard_blocked
    /\ validation.result.llm_verdict = None


(***************************************************************************)
(* Properties of the impact score.                                         *)
(***************************************************************************)
\* two calls of calculate for the same category, the second with inputs
\* at least as large as the first in every coordinate
CalculatedHigher ==
    /\ calculation.called /\ calculation'.called
    /\ calculation'.action_type = calculation.action_type
    /\ urgency_rank(calculation'.urgency_level) >= urgency_rank(calculation.urgency_level)
    /\ calculation'.effort2 >= calculation.effort2
    /\ calculation'.poverty_index >= calculation.poverty_index
    /\ calculation'.ai_confidence >= calculation.ai_confidence

\* two calls that differ in the effort only, both at or above 72 h
CalculatedAboveCap ==
    /\ calculation.called /\ calculation'.called
    /\ calculation' = [calculation EXCEPT !.effort2 = calculation'.effort2,
                                          !.score = calculation'.score]
    /\ calculation.effort2 >= 2 * MAX_EFFORT_HOURS
    /\ calculation'.effort2 >= 2 * MAX_EFFORT_HOURS

\* C26: calculate returns a score between 0 and 100; the score does not
\* fall when confidence, urgency rank, poverty index or effort hours rise;
\* efforts at and above the cap of 72 h give the same score (72 h and 200 h).
C26_ScoreBoundedMonotone ==
    [][/\ calculation'.score >= 0 /\ calculation'.score <= 10000
       /\ CalculatedHigher => calculation'.score >= calculation.score
       /\ CalculatedAboveCap => calculation'.score = calculation.score]_vars

\* a score below 100 computed for 200 h of effort
C26_AboveCapBelowMaximum ==
    /\ calculation.called
    /\ calculation.effort2 = 400
    /\ calculation.score > 0 /\ calculation.score < 10000


(***************************************************************************)
(* Properties of the signed attestations.                                  *)
(***************************************************************************)
\* the verifier recovers the oracle from the arguments and the signature
Verifies(signed_payload) ==
    recover(verifier_hash(signed_payload.args), signed_payload.signature) = oracle_address

\* C27: every attestation, of the automatic path and of the community
\* path, carries a signature that the on-chain verifier accepts: the digest
\* it computes over abi.encode of (eventId, volunteer, beneficiary,
\* impactScoreScaled, tokenRewardWei, zkProofHash, eventHash, nonce,
\* expiresAt) is the digest that was signed, and recovery yields the oracle.
C27_SignatureVerifies ==
    /\ resp.kind = "attested" => Verifies([args |-> resp.args, signature |-> resp.signature])
    /\ \A e \in EventIds :
           vote_store[e].claim_payload => Verifies(vote_store[e].claim_signed)
    /\ cresp.code = "200" => Verifies(cresp.signed)

\* the part of C27 that holds: the community path, and the automatic path
\* for a request that names a beneficiary other than the zero address
C27_VerifiesWithBeneficiary ==
    /\ (resp.kind = "attested" /\ resp.args.beneficiaryAddress # ZERO_ADDRESS)
           => Verifies([args |-> resp.args, signature |-> resp.signature])
    /\ \A e \in EventIds :
           vote_store[e].claim_payload => Verifies(vote_store[e].claim_signed)
    /\ cresp.code = "200" => Verifies(cresp.signed)

\* C29: the values verify reports for the signed fields are the values
\* that were hashed: impact_score * 100 is impactScoreScaled, token_reward
\* is tokenRewardWei / 10^18, and contract_args.beneficiaryAddress is the
\* hashed beneficiary, also for an empty or zero beneficiary.
C29_ReportedEqualsSigned ==
    resp.kind = "attested" =>
        /\ resp.impact_score = resp.signature.message.impactScoreScaled
        /\ resp.token_reward = resp.signature.message.tokenRewardWei
        /\ to_checksum_address(resp.args.beneficiaryAddress)
               = resp.signature.message.beneficiaryAddress

\* the part of C29 that holds: the reward, and the scaled score and reward
\* of contract_args
C29_RewardEqualsSigned ==
    resp.kind = "attested" =>
        /\ resp.token_reward = resp.signature.message.tokenRewardWei
        /\ resp.args.tokenRewardWei = resp.signature.message.tokenRewardWei
        /\ resp.args.impactScoreScaled = resp.signature.message.impactScoreScaled

(***************************************************************************)
(* Properties of the manipulation streak                                   *)
(***************************************************************************)
\* the verify request of the submitter ends with a hard block of the
\* validator or a plausibility penalty above 0.20
Manipulated ==
    VerifyEnds(1) /\ (param_result'.hard_blocked \/ param_result'.total_penalty > 20)

\* the streak goes up by one with every such request, the request that
\* brings it to the threshold bans the address, and a banned address is
\* refused before check_all runs
StreakCountsAndBans ==
    /\ Manipulated => param_manip_streak'["0xa1"] = param_manip_streak["0xa1"] + 1
    /\ param_manip_streak'["0xa1"] > param_manip_streak["0xa1"] => Manipulated
    /\ Manipulated /\ param_manip_streak'["0xa1"] >= PARAM_MANIP_STREAK_BAN
           => "0xa1" \in banned'
    /\ "0xa1" \in banned /\ nVerify' # nVerify
           => /\ resp'.kind = "banned"
              /\ UNCHANGED <<vreq, rate, phash, fraud, param_result, evaluated>>

\* a signed attestation for a request with a plausibility penalty below 0.10
CleanVerified ==
    VerifyEnds(1) /\ resp'.kind = "attested" /\ param_result'.total_penalty < 10

\* cast_vote decides a case of the submitter as approved
CaseApproved ==
    \E e \in EventIds : /\ opened_by[e] = "0xA1"
                        /\ vote_store'[e] # vote_store[e]
                        /\ vote_store'[e].outcome = "approved"

\* time reaches the expiry time of the streak key
KeyExpired ==
    now' > now /\ expire_at.param["0xa1"] > 0 /\ now' >= expire_at.param["0xa1"]

\* C28 as stated: the streak increases by one on every verify that ends in
\* a plausibility hard block or with a plausibility penalty above 0.20, the
\* verify that brings it to 3 bans the address, a banned address is refused
\* before any check runs, and the streak is cleared only by a verified
\* submission with plausibility penalty below 0.10 or by a community
\* approval of one of the address's cases
C28_ClearedOnlyByCleanOrApproval ==
    [][/\ StreakCountsAndBans
       /\ param_manip_streak'["0xa1"] < param_manip_streak["0xa1"]
              => CleanVerified \/ CaseApproved]_vars

\* C28 amended: as above, but the streak is also cleared when 7 days pass
\* after its last increase (every increase sets the key's expiry anew)
C28_StreakCountsBansAndExpires ==
    [][/\ StreakCountsAndBans
       /\ param_manip_streak'["0xa1"] > param_manip_streak["0xa1"]
              => expire_at'.param["0xa1"] = now + 7 * 24 * 3600
       /\ param_manip_streak'["0xa1"] < param_manip_streak["0xa1"]
              => CleanVerified \/ CaseApproved \/ KeyExpired]_vars

\* the third manipulation banned the address, the streak key expired 7 days
\* later and the address's next verify request was refused
C28_BannedAfterExpiry ==
    /\ "0xa1" \in banned
    /\ resp.kind = "banned"
    /\ param_result.hard_blocked
    /\ param_manip_streak["0xa1"] = 0
    /\ now = STREAK_TTL_SEC

(***************************************************************************)
(* Properties of get_claim on approved cases.                              *)
(***************************************************************************)
\* C30: for every review case whose outcome is "approved", get_claim
\* returns a signed community claim payload, at any later time and after
\* any number of further submissions (404 and 409 are the answers for a
\* case that does not exist or is not approved), and the payload of a case,
\* once there is one, stays the same (same nonce and signature) in every
\* later answer
C30_ApprovedCaseClaimable ==
    [][/\ cresp' # cresp =>
            \/ cresp'.code \in {"404", "409"}
            \/ /\ cresp'.code = "200"
               /\ vote_store'[cresp'.event_id].outcome = "approved"
               /\ Verifies(cresp'.signed)
               /\ cresp'.signed = vote_store'[cresp'.event_id].claim_signed
       /\ \A e \in EventIds :
              vote_store[e].claim_payload =>
                  vote_store'[e].claim_signed = vote_store[e].claim_signed]_vars

=============================================================================
